---- MODULE Spec2Model ----
(***************************************************************************)
(* Model of the Gumnam peer-to-peer messenger (Rust).                      *)
(*                                                                         *)
(* One local process ("me") is modelled: its crypto handler, its store,    *)
(* its transport listener with per-connection worker threads, the startup  *)
(* offline-fetch thread and the /send pipeline of the command shell.       *)
(* Peers, the DHT and the overlay daemon are the environment: what they    *)
(* deliver is drawn from bounded sets.                                     *)
(*                                                                         *)
(* The specifications share the variables:                                 *)
(*   SpecValidate  MessageProtocol::validate_message as a pure function    *)
(*   SpecNode      the inbound side: listener, workers and the handler of  *)
(*                 either front end (command line, desktop), fetch thread  *)
(*   SpecStore     the inbound side of the command line, frames that reach *)
(*                 the store only                                          *)
(*   SpecSend      the outbound side: /send, direct delivery, DHT fallback *)
(***************************************************************************)
EXTENDS Integers, Sequences, FiniteSets, TLC

(***************************************************************************)
(* Bounds of the model and constants of the program.                       *)
(***************************************************************************)
\* local wall clock (epoch seconds) at the start of a run
NowT == 1000
\* number of inbound connections the listener accepts in a run
MaxConn == 2
\* number of staged packages one fetch returns at most
MaxPkgs == 2
\* number of /send commands issued in a run
MaxSends == 2
\* seconds the clock may advance during a run
MaxTick == 1
\* number of add-contact commands issued in a run
MaxAdds == 2
\* message.rs:223  timestamp tolerance of validate_message
FutureTolerance == 300

(***************************************************************************)
(* Values.  Option::None of an address or signature is the string "None".  *)
(***************************************************************************)
Me == "me.onion"
Peers == {"pa.onion", "pb.onion"}
None == "None"
\* a string that is no v3 address (for one, its textual length is 55)
InvalidAddress == "notanonion"
\* the strings a contact row can be keyed by
Addresses == Peers \cup {Me, InvalidAddress}

\* message.rs:13-24  enum MessageType (serde lower-case tags)
MessageTypes ==
  {"text", "handshake", "ack", "keyexchange", "ping", "pong",
   "image", "audio", "file", "ipfs"}

\* crypto.rs:39-43  EncryptedData, by what decides decryption: the identity it
\* was encrypted to, the plaintext, whether the nonce decodes to 12 bytes and
\* whether the AEAD tag authenticates.
Envelope(to, plain, nonce12, tagOk) ==
  [k |-> "env", to |-> to, plain |-> plain, nonce12 |-> nonce12, tagOk |-> tagOk]

\* the value under payload["data"]: missing, not an EncryptedData, or one
DataAbsent == [k |-> "absent"]
DataMalformed == [k |-> "malformed"]

\* message.rs:49  payload: HashMap<String, Value>, by the keys the code reads
\* ("encrypted", "data", "is_response", "public_key") and the set of other keys.
\* A key holds "true", "false" (any value that is not the boolean true) or
\* "absent".
Payload(encrypted, data, is_response, public_key, extra) ==
  [encrypted |-> encrypted, data |-> data, is_response |-> is_response,
   public_key |-> public_key, extra |-> extra]

EmptyPayload == Payload("absent", DataAbsent, "absent", "absent", {})

NoSig == [by |-> None]

\* message.rs:45-55  struct Message
Msg(id, type, payload, timestamp, sender_id, recipient_id, signature, version) ==
  [id |-> id, type |-> type, payload |-> payload, timestamp |-> timestamp,
   sender_id |-> sender_id, recipient_id |-> recipient_id,
   signature |-> signature, version |-> version]

\* message.rs:59-75  Message::new: fresh uuid, current time, no signature, "1.0"
Message_new(uuid, now, type, payload, sender_id, recipient_id) ==
  Msg(uuid, type, payload, now, sender_id, recipient_id, NoSig, "1.0")

\* message.rs:93-106
create_text_message(uuid, now, sender_id, recipient_id) ==
  Message_new(uuid, now, "text",
              Payload("absent", DataAbsent, "absent", "absent", {"text"}),
              sender_id, recipient_id)

\* message.rs:110-126
create_handshake_message(uuid, now, sender_id, is_response) ==
  Message_new(uuid, now, "handshake",
              Payload("absent", DataAbsent,
                      IF is_response THEN "true" ELSE "false",
                      "pk", {"protocol_version"}),
              sender_id, None)

\* message.rs:129-137
create_ack_message(uuid, now, sender_id) ==
  Message_new(uuid, now, "ack",
              Payload("absent", DataAbsent, "absent", "absent", {"original_msg_id"}),
              sender_id, None)

\* message.rs:140-147
create_ping_message(uuid, now, sender_id) ==
  Message_new(uuid, now, "ping", EmptyPayload, sender_id, None)

\* message.rs:150-157
create_pong_message(uuid, now, sender_id) ==
  Message_new(uuid, now, "pong", EmptyPayload, sender_id, None)

\* message.rs:236-257
wrap_encrypted_message(uuid, now, encrypted_data, sender_id, recipient_id) ==
  Message_new(uuid, now, "text",
              Payload("true", encrypted_data, "absent", "absent", {}),
              sender_id, recipient_id)

\* message.rs:215-233  validate_message: three checks, in the code's order
validate_message(msg, current_time) ==
  IF msg.id = "" THEN FALSE
  ELSE IF msg.timestamp > current_time + FutureTolerance THEN FALSE
  ELSE IF msg.version # "1.0" THEN FALSE
  ELSE TRUE

\* message.rs:78-80  to_json: the JSON text of a message
to_json(msg) == [k |-> "msg", m |-> msg]

\* message.rs:83-85  from_json: serde accepts only a text with the fields of a
\* Message; anything else (not JSON, or JSON of another shape) is an error.
from_json_ok(text) == text.k = "msg"
from_json(text) == text.m

(***************************************************************************)
(* Signatures (crypto.rs:212-243, message.rs:160-212).  A signature value  *)
(* is [by, over]: the identity whose key made it and the byte string it    *)
(* was made over.  The byte string is format!("{}:{}:{:?}:{}:{:?}:{:?}")   *)
(* of id, kind, payload, timestamp, sender and recipient; {:?} of the      *)
(* payload, a HashMap, lists the keys in the iteration order of that map,  *)
(* which std seeds per map instance.                                       *)
(***************************************************************************)
\* the keys a payload holds
PayloadKeys(payload) ==
  (IF payload.encrypted = "absent" THEN {} ELSE {"encrypted"})
  \cup (IF payload.data.k = "absent" THEN {} ELSE {"data"})
  \cup (IF payload.is_response = "absent" THEN {} ELSE {"is_response"})
  \cup (IF payload.public_key = "absent" THEN {} ELSE {"public_key"})
  \cup payload.extra

\* the orders in which a HashMap with these keys can iterate
Orderings(keys) ==
  {o \in [1..Cardinality(keys) -> keys] :
     \A i, j \in 1..Cardinality(keys) : i # j => o[i] # o[j]}

\* the orders of the keys of an encrypted-text payload and of its parts
KeyOrders ==
  UNION {Orderings(keys) : keys \in SUBSET {"encrypted", "data"}}

\* the order in which one given map instance iterates
iter_order(payload) == CHOOSE o \in Orderings(PayloadKeys(payload)) : TRUE

\* message.rs:165-173 and 198-206  the formatted string, with the payload
\* written in the given order of its keys
data_to_sign(msg, order) ==
  <<msg.id, msg.type, order, msg.payload, msg.timestamp, msg.sender_id, msg.recipient_id>>

\* a signature string that is not the base64 of 64 bytes
BadSigString == [by |-> "garbage"]

\* crypto.rs:212-226  sign_with_onion_key under the identity the handler has
\* loaded (None: "Tor key not loaded")
sign_with_onion_key_ok(key) == key # None
sign_with_onion_key(key, message) == [by |-> key, over |-> message]

\* crypto.rs:245-262  onion_to_pubkey succeeds on a well-formed v3 address
OnionValid(a) == a \in Peers \cup {Me}

\* verify_with_onion_address that checks the signature against the message
\* only, whatever the address
verify_any_address(message, signature, onion_address) ==
  IF ~OnionValid(onion_address) THEN FALSE
  ELSE IF signature = BadSigString THEN FALSE
  ELSE signature.over = message

\* crypto.rs:228-243  verify_with_onion_address: Err for an address or a
\* signature string that does not decode, else whether the signature is one
\* by the key of the address over these bytes; verify_message maps Err to false
verify_with_onion_address(message, signature, onion_address) ==
  IF ~OnionValid(onion_address) THEN FALSE
  ELSE IF signature = BadSigString THEN FALSE
  ELSE signature = [by |-> onion_address, over |-> message]

\* message.rs:160-180  sign_message: the signature covers id, kind, payload,
\* timestamp, sender and recipient; without the identity key the call fails
\* and the message stays as it was.
sign_message(msg, key, order) ==
  IF sign_with_onion_key_ok(key)
    THEN [msg EXCEPT !.signature = sign_with_onion_key(key, data_to_sign(msg, order))]
    ELSE msg

\* message.rs:183-212  verify_message, the payload iterating in the given order
verify_message(msg, order) ==
  IF msg.signature = NoSig THEN FALSE
  ELSE IF msg.sender_id = None THEN FALSE
  ELSE verify_with_onion_address(data_to_sign(msg, order), msg.signature, msg.sender_id)

\* the identity a handler signs with
LoadedKey(loaded) == IF loaded THEN Me ELSE None

(***************************************************************************)
(* State.                                                                  *)
(***************************************************************************)
VARIABLES
  mode,        \* what runs: "validate", "node", "store", "desktop" or "send"
  \* ---- SpecValidate
  vmsg,        \* the message handed to validate_message
  vsrc,        \* "wire" (deserialised) or the construction helper that built it
  vnow,        \* the local clock when validate_message ran
  vpc,         \* "start" | "done"
  vres,        \* the result of validate_message
  \* ---- the local process: identity, locks, store
  keyLoaded,   \* crypto.rs:49  raw_tor_expanded_key is Some
  handlerSet,  \* tor_service.rs:196  message_handler is Some
  mhL,         \* Mutex around the message handler   [owner, poisoned]
  cryptoL,     \* Mutex<CryptoHandler>
  pmL,         \* Mutex<PeerManager>
  storL,       \* Mutex<MessageStorage>
  contacts,    \* table contacts: address -> row or NoContact
  online,      \* peer.rs:21  active_connections (its keys)
  messages,    \* table messages: the set of rows
  \* ---- SpecNode: listener workers and the startup fetch thread
  wpc,         \* worker -> position in handle_client / the handler
  wframe,      \* worker -> the frame read from its connection
  wout,        \* worker -> how the handler call ended
  wreply,      \* worker -> what was written back to the peer
  eff,         \* worker -> effects its frame has had on the local state
  wverified,   \* worker -> what verify_message returned for its frame
  responses,   \* response handshakes handed to their own threads
  fpc,         \* fetch thread position
  fleft,       \* staged packages still to process
  fcur,        \* the staged package being processed
  \* ---- SpecSend: the /send commands of the shell
  sjob,        \* command -> its progress, message, results
  dht,         \* the packages stored in the DHT
  clock,       \* the local wall clock
  nextUuid,    \* how many identifiers the process has generated, plus one
  \* ---- the desktop front end (api.rs)
  torL,        \* Mutex around the global TOR_SERVICE
  webq,        \* WEB_MESSAGES: identifiers of the queued web messages
  newCount,    \* NEW_MESSAGE_COUNT
  \* ---- SpecAdd: the add-contact commands
  ajob,        \* command -> its progress, address, result, handshake
  \* ---- SpecWipe: the files and the daemon around /delete-all
  wipe,        \* [pc, db, lock, identity, daemon, address, before]
  \* ---- the specifications of pure functions: inputs, position, outputs
  pin,
  ppc,
  pout

valVars == <<vmsg, vsrc, vnow, vpc, vres>>
procVars == <<keyLoaded, handlerSet, mhL, cryptoL, pmL, storL, contacts, online, messages>>
nodeVars == <<wpc, wframe, wout, wreply, eff, wverified, responses, fpc, fleft, fcur>>
sendVars == <<sjob, dht, clock, nextUuid>>
deskVars == <<torL, webq, newCount>>
addVars == <<ajob>>
wipeVars == <<wipe>>
pureVars == <<pin, ppc, pout>>
auxVars == <<addVars, wipeVars, pureVars>>
vars == <<mode, valVars, procVars, nodeVars, sendVars, deskVars, auxVars>>

(***************************************************************************)
(* Threads and locks.  A std::sync::Mutex is [owner, poisoned]: lock()     *)
(* blocks while it is owned, returns Err on a poisoned mutex, and a thread *)
(* that panics poisons and releases every mutex it holds.                  *)
(***************************************************************************)
Workers == 1..MaxConn
NoOwner == <<"none">>
FetchT == <<"fetch">>
MainT == <<"main">>
RespT(w) == <<"response", w>>
WorkerT(w) == <<"worker", w>>

FreeLock == [owner |-> NoOwner, poisoned |-> FALSE]
Held(L, t) == [owner |-> t, poisoned |-> L.poisoned]
\* drop of a MutexGuard
Release(L, t) == IF L.owner = t THEN [owner |-> NoOwner, poisoned |-> L.poisoned] ELSE L
\* drop of a MutexGuard while the thread unwinds from a panic
Unwind(L, t) == IF L.owner = t THEN [owner |-> NoOwner, poisoned |-> TRUE] ELSE L

(***************************************************************************)
(* The store (storage.rs) and the crypto handler (crypto.rs).              *)
(***************************************************************************)
NoContact == [k |-> "none"]
ContactRow(nickname, public_key) ==
  [k |-> "row", nickname |-> nickname, public_key |-> public_key]

\* storage.rs:227-244  add_contact: INSERT OR REPLACE of the whole row
add_contact(tbl, onion_address, nickname, public_key) ==
  [tbl EXCEPT ![onion_address] = ContactRow(nickname, public_key)]

Row(id, type, sender_id, recipient_id, payload, timestamp, is_sent) ==
  [id |-> id, type |-> type, sender_id |-> sender_id, recipient_id |-> recipient_id,
   payload |-> payload, timestamp |-> timestamp, is_sent |-> is_sent]

\* storage.rs:134-148  the INSERT fails on the PRIMARY KEY (id) constraint
save_message_inserted(tbl, row) == \A r \in tbl : r.id # row.id

\* save_message without the PRIMARY KEY constraint (a plain INSERT)
save_message_no_key(tbl, row) == tbl \cup {row}

\* storage.rs:121-149  save_message: the table afterwards
save_message(tbl, row) ==
  IF save_message_inserted(tbl, row) THEN tbl \cup {row} ELSE tbl

\* decrypt_message without the check of the recipient and of the AEAD tag
decrypt_outcome_no_auth(loaded, env) ==
  IF ~loaded THEN "err" ELSE IF ~env.nonce12 THEN "panic" ELSE "ok"

\* crypto.rs:149-185  decrypt_message, in the code's order: the identity must be
\* loaded (Err), Nonce::from_slice panics unless the nonce has 12 bytes, the
\* AEAD fails unless the envelope was made for this identity and is intact.
decrypt_outcome(loaded, env) ==
  IF ~loaded THEN "err"
  ELSE IF ~env.nonce12 THEN "panic"
  ELSE IF env.to # Me \/ ~env.tagOk THEN "err"
  ELSE "ok"

(***************************************************************************)
(* Frames: what a connection delivers (tor_service.rs:571-589).            *)
(*   raw    a non-HTTP frame; its text is not JSON ("no"), JSON of another *)
(*          shape ("other"), a web_message object ("web") or the JSON of a *)
(*          protocol message; sliceOk says whether byte 200 of the text   *)
(*          is a character boundary (always so for a text of at most 200   *)
(*          bytes), which the debug print at cli.rs:409 depends on         *)
(*   http   GET, or a POST to /send with or without a message; sliceOk is  *)
(*          that of the web_message JSON made from the form                *)
(*   empty  the peer closed without sending                                *)
(***************************************************************************)
RawFrame(kind, sliceOk) == [k |-> "raw", text |-> [k |-> kind], sliceOk |-> sliceOk]
MsgFrame(m, sliceOk) == [k |-> "raw", text |-> to_json(m), sliceOk |-> sliceOk]
HttpFrame(verb, sliceOk) == [k |-> "http", verb |-> verb, sliceOk |-> sliceOk]
EmptyFrame == [k |-> "empty"]

\* a message as the peer `by` signed it (unsigned when there is no such peer)
SigBy(m, by) == sign_message(m, by, iter_order(m.payload))

Hs(id, ts, ver, sender, is_response) ==
  SigBy(Msg(id, "handshake",
            Payload("absent", DataAbsent, is_response, "pk", {"protocol_version"}),
            ts, sender, None, NoSig, ver), sender)

Txt(id, sender, encrypted, data, ver) ==
  SigBy(Msg(id, "text", Payload(encrypted, data, "absent", "absent", {}),
            NowT, sender, Me, NoSig, ver), sender)

EnvFor(to, nonce12, tagOk) == Envelope(to, [k |-> "text", v |-> "hello"], nonce12, tagOk)

NodeMessages ==
  { Hs("h1", NowT, "1.0", "pa.onion", r) : r \in {"false", "true", "absent"} }
  \cup
  { Hs("", NowT, "1.0", "pa.onion", "false"),
    Hs("h1", NowT + FutureTolerance + 1, "1.0", "pa.onion", "false"),
    Hs("h1", NowT, "2.0", "pa.onion", "false"),
    Hs("h1", NowT, "1.0", None, "false"),
    Txt("u1", "pa.onion", "true", EnvFor(Me, TRUE, TRUE), "1.0"),
    Txt("u1", "pb.onion", "true", EnvFor(Me, TRUE, TRUE), "1.0"),
    Txt("u1", "pa.onion", "true", EnvFor(Me, TRUE, TRUE), "2.0"),
    Txt("u1", "pa.onion", "false", EnvFor(Me, TRUE, TRUE), "1.0"),
    Txt("u1", "pa.onion", "true", DataAbsent, "1.0"),
    Txt("u1", "pa.onion", "true", DataMalformed, "1.0"),
    Txt("u1", "pa.onion", "true", EnvFor("pb.onion", TRUE, TRUE), "1.0"),
    Txt("u1", "pa.onion", "true", EnvFor(Me, TRUE, FALSE), "1.0"),
    Txt("u1", "pa.onion", "true", EnvFor(Me, FALSE, TRUE), "1.0"),
    [Txt("u1", "pa.onion", "true", EnvFor(Me, TRUE, TRUE), "1.0")
       EXCEPT !.signature = sign_with_onion_key("pb.onion", "forged")],
    SigBy(Msg("f1", "image", Payload("true", EnvFor(Me, TRUE, TRUE), "absent", "absent", {}),
              NowT, "pa.onion", Me, NoSig, "1.0"), "pa.onion"),
    create_ack_message("a1", NowT, "pa.onion"),
    create_ack_message("a1", NowT, None),
    create_ping_message("p1", NowT, "pa.onion"),
    create_pong_message("p1", NowT, "pa.onion"),
    Message_new("k1", NowT, "keyexchange",
                Payload("absent", DataAbsent, "absent", "pk", {}), "pa.onion", Me) }

\* frames whose handling reaches the contacts or the messages table
StoreFrames ==
  { MsgFrame(Hs("h1", NowT, "1.0", "pa.onion", "false"), TRUE),
    MsgFrame(Txt("u1", "pa.onion", "true", EnvFor(Me, TRUE, TRUE), "1.0"), TRUE),
    MsgFrame(Txt("u1", "pb.onion", "true", EnvFor(Me, TRUE, TRUE), "1.0"), TRUE),
    MsgFrame(Txt("u2", "pa.onion", "true", EnvFor(Me, TRUE, TRUE), "1.0"), TRUE) }

NodeFrames ==
  { MsgFrame(m, TRUE) : m \in NodeMessages }
  \cup
  { RawFrame("no", TRUE), RawFrame("no", FALSE), RawFrame("other", TRUE),
    RawFrame("web", TRUE),
    MsgFrame(Txt("u1", "pa.onion", "true", EnvFor(Me, TRUE, TRUE), "1.0"), FALSE),
    HttpFrame("GET", TRUE), HttpFrame("POST", TRUE), HttpFrame("POST", FALSE),
    HttpFrame("POST_EMPTY", TRUE), EmptyFrame }

\* tor_service.rs:651-700  handle_post_message rewraps the form as the JSON
\* {type:"web_message", ...}; tor_service.rs:602 passes a raw frame as it is.
HandlerInput(f) == IF f.k = "http" THEN RawFrame("web", f.sliceOk) ELSE f

\* tor_service.rs:606 and 698-704: what the worker writes after the handler
ReplyAfterHandler(f) == IF f.k = "http" THEN "HTTP 200" ELSE "OK"

(***************************************************************************)
(* Staged packages (snf.rs:20-24): the outer envelope and what its         *)
(* plaintext is: the JSON of a protocol message, or some other text.       *)
(***************************************************************************)
Package(to, body, nonce12, tagOk) ==
  [encrypted_message |-> Envelope(to, body, nonce12, tagOk)]

NotJson == [k |-> "text"]

Packages ==
  { Package(Me, to_json(Txt("u1", "pa.onion", "true", EnvFor(Me, TRUE, TRUE), "1.0")), TRUE, TRUE),
    Package(Me, NotJson, TRUE, TRUE),
    Package("pb.onion", NotJson, TRUE, TRUE),
    Package(Me, NotJson, FALSE, TRUE) }

\* snf.rs:43-58  the package upload_and_announce makes of a message that was
\* sent directly before: the same encrypted data of the same sender for the
\* same recipient, wrapped and signed again as a new message (a new
\* identifier), under an outer envelope for the recipient
StagedCopy(m, uuid) ==
  Package(m.recipient_id,
          to_json(SigBy(wrap_encrypted_message(uuid, NowT, m.payload.data,
                                               m.sender_id, m.recipient_id),
                        m.sender_id)),
          TRUE, TRUE)

\* the direct frame of one /send of pa.onion (cli.rs:328-352)
DirectOfSend == Txt("u2", "pa.onion", "true", EnvFor(Me, TRUE, TRUE), "1.0")

\* what the DHT may hold for a process whose store is looked at: the
\* packages above and the staged copy of that /send
StorePackages == Packages \cup {StagedCopy(DirectOfSend, "s2")}

FetchPackages == IF mode = "store" THEN StorePackages ELSE Packages

\* the fetch thread has no package in hand
NoPackage == Package(None, NotJson, TRUE, TRUE)

(***************************************************************************)
(* Values of the outbound side: /send commands, wire outcomes, the DHT.    *)
(***************************************************************************)
Jobs == 1..MaxSends
SendT(j) == <<"send", j>>

\* message.rs:62  Uuid::new_v4(): the n-th identifier generated by the process
Uuids == <<"s1", "s2", "s3", "s4", "s5", "s6", "s7", "s8">>
Uuid(n) == Uuids[n]

TextOf(s) == [k |-> "text", v |-> s]

\* crypto.rs:110-146  encrypt_message for a recipient whose address is valid
encrypt_message(message, recipient_onion) == Envelope(recipient_onion, message, TRUE, TRUE)

\* what the peer's end of the connection does (tor_service.rs:475-496): the
\* SOCKS connect fails, the write or the read fails or times out, or a reply
\* of n bytes is read
Replies == {"OK\n", "OK", "ERR\n", ""}
WireOutcomes == {"connect_failed", "io_failed"} \cup Replies

\* <[u8]>::trim_ascii on the replies above
trim_ascii(r) == IF r = "OK\n" THEN "OK" ELSE IF r = "ERR\n" THEN "ERR" ELSE r

\* tor_service.rs:457-499  send_message: Err(Connection), Err(Io) or
\* Ok(trimmed reply == "OK")
send_message(o) ==
  IF o = "connect_failed" THEN [ok |-> FALSE, v |-> FALSE, err |-> "Connection"]
  ELSE IF o = "io_failed" THEN [ok |-> FALSE, v |-> FALSE, err |-> "Io"]
  ELSE [ok |-> TRUE, v |-> (trim_ascii(o) = "OK"), err |-> "none"]

\* cli.rs:352-364  the match on the result takes the first arm for Ok(_),
\* whatever the boolean
took_ok_arm(res) == res.ok

\* snf.rs:20-24  IpfsPackage under its DHT key (the hash of the recipient)
Staged(recipient_onion, msg_json) ==
  [recipient_hash |-> recipient_onion,
   encrypted_message |-> encrypt_message(msg_json, recipient_onion)]

NoStaged == [recipient_hash |-> None, encrypted_message |-> DataAbsent]

\* how the put loop of upload_and_announce ends (snf.rs:76-198): the swarm
\* cannot be set up or put_record fails (Err), the record is confirmed
\* (DHT-RECORD), or the 120 s timeout fires with the record stored somewhere
\* or nowhere (DHT-PROPAGATING either way)
PutOutcomes == {"error", "confirmed", "timeout_stored", "timeout_lost"}

NewJob ==
  [pc |-> "new", to |-> None, env |-> DataAbsent,
   msg |-> create_ping_message("", NowT, None),
   wire |-> "none", res |-> send_message("connect_failed"),
   upload |-> "none", pkg |-> NoStaged, report |-> "none"]

SendIdle ==
  /\ sjob = [j \in Jobs |-> NewJob]
  /\ dht = {}
  /\ clock = NowT
  /\ nextUuid = 1

(***************************************************************************)
(* Idle values: the part of the state a specification does not use.        *)
(***************************************************************************)
ProcIdle ==
  /\ keyLoaded = FALSE
  /\ handlerSet = FALSE
  /\ mhL = FreeLock
  /\ cryptoL = FreeLock
  /\ pmL = FreeLock
  /\ storL = FreeLock
  /\ contacts = [a \in Addresses |-> NoContact]
  /\ online = {}
  /\ messages = {}

DeskIdle ==
  /\ torL = FreeLock
  /\ webq = <<>>
  /\ newCount = 0

AddIdle == ajob = <<>>

WipeIdle == wipe = [pc |-> "idle"]

PureIdle ==
  /\ pin = [f |-> "none"]
  /\ ppc = "idle"
  /\ pout = [f |-> "none"]

AuxIdle == AddIdle /\ WipeIdle /\ PureIdle

NodeIdle ==
  /\ wpc = [w \in Workers |-> "idle"]
  /\ wframe = [w \in Workers |-> EmptyFrame]
  /\ wout = [w \in Workers |-> "none"]
  /\ wreply = [w \in Workers |-> "none"]
  /\ eff = [w \in Workers |-> {}]
  /\ wverified = [w \in Workers |-> "none"]
  /\ responses = {}
  /\ fpc = "idle"
  /\ fleft = 0
  /\ fcur = NoPackage

(***************************************************************************)
(* SpecValidate: validate_message over deserialised and constructed        *)
(* messages.                                                               *)
(***************************************************************************)
InnerEnvOk == Envelope(Me, [k |-> "text", v |-> "hello"], TRUE, TRUE)

WirePayloads ==
  { EmptyPayload,
    Payload("true", InnerEnvOk, "absent", "absent", {}),
    Payload("true", DataAbsent, "absent", "absent", {}),
    Payload("true", DataMalformed, "absent", "absent", {}),
    Payload("false", InnerEnvOk, "absent", "absent", {}),
    Payload("absent", DataAbsent, "absent", "absent", {"text"}),
    Payload("absent", DataAbsent, "false", "pk", {"protocol_version"}) }

WireMessages ==
  { Msg(id, ty, p, ts, s, Me, NoSig, v) :
      id \in {"", "u1"}, ty \in MessageTypes, p \in WirePayloads,
      ts \in {NowT, NowT + FutureTolerance, NowT + FutureTolerance + 1},
      s \in {None, "pa.onion"}, v \in {"1.0", "2.0"} }

Helpers == {"text", "handshake", "handshake_response", "ack", "ping", "pong", "wrap"}

Built(h) ==
  CASE h = "text" -> create_text_message("u1", NowT, Me, "pa.onion")
    [] h = "handshake" -> create_handshake_message("u1", NowT, Me, FALSE)
    [] h = "handshake_response" -> create_handshake_message("u1", NowT, Me, TRUE)
    [] h = "ack" -> create_ack_message("u1", NowT, Me)
    [] h = "ping" -> create_ping_message("u1", NowT, Me)
    [] h = "pong" -> create_pong_message("u1", NowT, Me)
    [] OTHER -> wrap_encrypted_message("u1", NowT,
                  Envelope("pa.onion", [k |-> "text", v |-> "hello"], TRUE, TRUE),
                  Me, "pa.onion")

ValIdle ==
  /\ vmsg = create_ping_message("u1", NowT, Me)
  /\ vsrc = "idle"
  /\ vnow = NowT
  /\ vpc = "idle"
  /\ vres = FALSE

InitValidate ==
  /\ mode = "validate"
  /\ ProcIdle
  /\ NodeIdle
  /\ SendIdle
  /\ DeskIdle
  /\ AuxIdle
  /\ vnow = NowT
  /\ vpc = "start"
  /\ vres = FALSE
  /\ \/ vsrc = "wire" /\ vmsg \in WireMessages
     \/ vsrc \in Helpers /\ vmsg = Built(vsrc)

\* the caller validates at a local time that is not before the message was
\* built (the clock may have advanced by up to MaxTick seconds)
Validate ==
  /\ mode = "validate"
  /\ vpc = "start"
  /\ \E dt \in 0..MaxTick :
       /\ vnow' = NowT + dt
       /\ vres' = validate_message(vmsg, NowT + dt)
  /\ vpc' = "done"
  /\ UNCHANGED <<mode, auxVars, deskVars, vmsg, vsrc, procVars, nodeVars, sendVars>>

NextValidate == Validate

SpecValidate == InitValidate /\ [][NextValidate]_vars

(***************************************************************************)
(* SpecNode: the inbound side of the command-line process.                 *)
(*                                                                         *)
(* Init is the state after TorService::start returned and the identity key *)
(* was loaded or failed to load (cli.rs:51-88): the listener thread is     *)
(* accepting, no handler is registered yet (TorService::new(None)).        *)
(***************************************************************************)
InitProcessKnowing(tbl) ==
  /\ ValIdle
  /\ keyLoaded \in BOOLEAN
  /\ handlerSet = FALSE
  /\ mhL = FreeLock
  /\ cryptoL = FreeLock
  /\ pmL = FreeLock
  /\ storL = FreeLock
  /\ contacts = tbl
  /\ online = {}
  /\ messages = {}
  /\ NodeIdle
  /\ SendIdle
  /\ DeskIdle
  /\ AuxIdle

\* a process whose contact table is empty
InitProcess == InitProcessKnowing([a \in Addresses |-> NoContact])

\* "node", "store" and "known" run the command-line process and differ in the
\* frames peers deliver and in the contacts of the start; "desktop" runs the
\* desktop front end over the same transport, store and crypto handler
CliMode == mode \in {"node", "store", "known"}
NodeMode == CliMode \/ mode = "desktop"

InitNode ==
  /\ mode = "node"
  /\ InitProcess

\* the handler returns: handle_client drops the handler guard and writes the
\* reply (tor_service.rs:600-606)
HandlerReturns(w, how) ==
  /\ wpc' = [wpc EXCEPT ![w] = "done"]
  /\ wout' = [wout EXCEPT ![w] = how]
  /\ wreply' = [wreply EXCEPT ![w] = ReplyAfterHandler(wframe[w])]
  /\ mhL' = Release(mhL, WorkerT(w))

\* the worker thread panics inside the handler: every guard it holds is
\* dropped poisoned, nothing is written to the peer
WorkerPanics(w) ==
  /\ wpc' = [wpc EXCEPT ![w] = "panicked"]
  /\ wout' = [wout EXCEPT ![w] = "panic"]
  /\ mhL' = Unwind(mhL, WorkerT(w))
  /\ cryptoL' = Unwind(cryptoL, WorkerT(w))
  /\ pmL' = Unwind(pmL, WorkerT(w))
  /\ storL' = Unwind(storL, WorkerT(w))
  /\ UNCHANGED wreply

\* cli.rs:109, 117  the main thread registers the handler, then spawns the
\* one-shot offline fetch thread
SetMessageHandler ==
  /\ CliMode
  /\ ~handlerSet
  /\ mhL.owner = NoOwner
  /\ ~mhL.poisoned
  /\ handlerSet' = TRUE
  /\ fpc' = "fetching"
  /\ UNCHANGED <<mode, auxVars, wverified, deskVars, valVars, sendVars, keyLoaded, mhL, cryptoL, pmL, storL, contacts,
                 online, messages, wpc, wframe, wout, wreply, eff, responses,
                 fleft, fcur>>

\* tor_service.rs:433-451 and 565-598  the listener accepts a connection and
\* spawns a worker, which reads the frame: nothing read ends the worker, a GET
\* or an empty POST is answered by the HTTP handler, everything else goes to
\* the message callback.
Accept(w, f) ==
  /\ NodeMode
  /\ wpc[w] = "idle"
  /\ \A v \in Workers : v < w => wpc[v] # "idle"
  /\ wframe' = [wframe EXCEPT ![w] = f]
  /\ IF f.k = "empty"
       THEN wpc' = [wpc EXCEPT ![w] = "done"] /\ UNCHANGED wreply
     ELSE IF f.k = "http" /\ f.verb = "GET"
       THEN /\ wpc' = [wpc EXCEPT ![w] = "done"]
            /\ wreply' = [wreply EXCEPT ![w] = "HTTP 200"]
     ELSE IF f.k = "http" /\ f.verb = "POST_EMPTY"
       THEN /\ wpc' = [wpc EXCEPT ![w] = "done"]
            /\ wreply' = [wreply EXCEPT ![w] = "HTTP 400"]
     ELSE wpc' = [wpc EXCEPT ![w] = "mh_lock"] /\ UNCHANGED wreply
  /\ UNCHANGED <<mode, auxVars, wverified, deskVars, valVars, sendVars, procVars, wout, eff, responses, fpc, fleft, fcur>>

\* tor_service.rs:600-606 (688-700 for a POST)  message_handler.lock(): on a
\* poisoned mutex, or while no handler is registered, the frame is not handed
\* to anyone and the reply is written all the same.
LockHandler(w) ==
  /\ NodeMode
  /\ wpc[w] = "mh_lock"
  /\ mhL.owner = NoOwner
  /\ IF mhL.poisoned
       THEN HandlerReturns(w, "poisoned")
     ELSE IF ~handlerSet
       THEN HandlerReturns(w, "nohandler")
     ELSE /\ mhL' = Held(mhL, WorkerT(w))
          /\ wpc' = [wpc EXCEPT ![w] = "handler"]
          /\ UNCHANGED <<wout, wreply>>
  /\ UNCHANGED <<mode, auxVars, wverified, deskVars, valVars, sendVars, keyLoaded, handlerSet, cryptoL, pmL, storL,
                 contacts, online, messages, wframe, eff, responses, fpc, fleft, fcur>>

\* a handler whose default arm answers like the handshake arm
HandlerEntry_answers_all(w) ==
  /\ CliMode
  /\ wpc[w] = "handler"
  /\ LET f == HandlerInput(wframe[w])
         message_str == f.text IN
       IF ~f.sliceOk
         THEN WorkerPanics(w)
       ELSE IF message_str.k = "no"
         THEN HandlerReturns(w, "not_json") /\ UNCHANGED <<cryptoL, pmL, storL>>
       ELSE IF message_str.k = "web"
         THEN HandlerReturns(w, "web") /\ UNCHANGED <<cryptoL, pmL, storL>>
       ELSE IF ~from_json_ok(message_str)
         THEN HandlerReturns(w, "bad_format") /\ UNCHANGED <<cryptoL, pmL, storL>>
       ELSE IF from_json(message_str).sender_id = None
         THEN HandlerReturns(w, "no_sender") /\ UNCHANGED <<cryptoL, pmL, storL>>
       ELSE IF from_json(message_str).type = "text"
         THEN /\ wpc' = [wpc EXCEPT ![w] = "tx_verify"]
              /\ UNCHANGED <<wout, wreply, mhL, cryptoL, pmL, storL>>
       ELSE /\ wpc' = [wpc EXCEPT ![w] = "hs_pm"]
            /\ UNCHANGED <<wout, wreply, mhL, cryptoL, pmL, storL>>
  /\ UNCHANGED <<mode, auxVars, wverified, deskVars, valVars, sendVars, keyLoaded, handlerSet, contacts, online, messages,
                 wframe, eff, responses, fpc, fleft, fcur>>

\* cli.rs:398-456  handle_incoming_message up to the match on the kind.  The
\* debug print slices the text at byte 200, which panics inside a
\* multi-byte character.  validate_message is not called.
HandlerEntry(w) ==
  /\ CliMode
  /\ wpc[w] = "handler"
  /\ LET f == HandlerInput(wframe[w])
         message_str == f.text IN
       IF ~f.sliceOk
         THEN WorkerPanics(w)
       ELSE IF message_str.k = "no"
         THEN HandlerReturns(w, "not_json") /\ UNCHANGED <<cryptoL, pmL, storL>>
       ELSE IF message_str.k = "web"
         THEN HandlerReturns(w, "web") /\ UNCHANGED <<cryptoL, pmL, storL>>
       ELSE IF ~from_json_ok(message_str)
         THEN HandlerReturns(w, "bad_format") /\ UNCHANGED <<cryptoL, pmL, storL>>
       ELSE IF from_json(message_str).sender_id = None
         THEN HandlerReturns(w, "no_sender") /\ UNCHANGED <<cryptoL, pmL, storL>>
       ELSE IF from_json(message_str).type = "handshake"
         THEN /\ wpc' = [wpc EXCEPT ![w] = "hs_pm"]
              /\ UNCHANGED <<wout, wreply, mhL, cryptoL, pmL, storL>>
       ELSE IF from_json(message_str).type = "text"
         THEN /\ wpc' = [wpc EXCEPT ![w] = "tx_verify"]
              /\ UNCHANGED <<wout, wreply, mhL, cryptoL, pmL, storL>>
       ELSE HandlerReturns(w, "ignored") /\ UNCHANGED <<cryptoL, pmL, storL>>
  /\ UNCHANGED <<mode, auxVars, wverified, deskVars, valVars, sendVars, keyLoaded, handlerSet, contacts, online, messages,
                 wframe, eff, responses, fpc, fleft, fcur>>

\* cli.rs:468  if let Ok(mut pm) = peer_manager.lock()
HandshakeLockPeers(w) ==
  /\ CliMode
  /\ wpc[w] = "hs_pm"
  /\ pmL.owner = NoOwner
  /\ IF pmL.poisoned
       THEN wpc' = [wpc EXCEPT ![w] = "hs_resp"] /\ UNCHANGED pmL
       ELSE wpc' = [wpc EXCEPT ![w] = "hs_store"] /\ pmL' = Held(pmL, WorkerT(w))
  /\ UNCHANGED <<mode, auxVars, wverified, deskVars, valVars, sendVars, keyLoaded, handlerSet, mhL, cryptoL, storL, contacts,
                 online, messages, wframe, wout, wreply, eff, responses, fpc, fleft, fcur>>

\* cli.rs:469-471 with peer.rs:34-42 and 79-98  add_peer(sender, None, key)
\* replaces the contact row (storage.lock().unwrap()), mark_peer_online
\* inserts into active_connections and rewrites the row with what it read.
HandshakeUpsert(w) ==
  /\ CliMode
  /\ wpc[w] = "hs_store"
  /\ storL.owner = NoOwner
  /\ LET m == from_json(wframe[w].text) IN
       IF storL.poisoned
         THEN /\ WorkerPanics(w)
              /\ UNCHANGED <<contacts, online, eff>>
         ELSE /\ contacts' = add_contact(contacts, m.sender_id, None,
                                        IF m.payload.public_key = "absent"
                                          THEN None ELSE m.payload.public_key)
              /\ online' = online \cup {m.sender_id}
              /\ eff' = [eff EXCEPT ![w] = @ \cup {"contact", "online"}]
              /\ pmL' = Release(pmL, WorkerT(w))
              /\ wpc' = [wpc EXCEPT ![w] = "hs_resp"]
              /\ UNCHANGED <<wout, wreply, mhL, cryptoL, storL>>
  /\ UNCHANGED <<mode, auxVars, wverified, deskVars, valVars, sendVars, keyLoaded, handlerSet, messages, wframe, responses,
                 fpc, fleft, fcur>>

\* message.rs:160-180 as called at cli.rs:482-484: the signature is set only if
\* the crypto mutex is not poisoned and the identity key is loaded; the result
\* of sign_message is discarded.
signed_after_lock(poisoned, loaded) == ~poisoned /\ loaded

\* cli.rs:463-499  is_response (false when absent): a response handshake is
\* built, signed under the crypto lock and handed to a new thread.
HandshakeRespond(w) ==
  /\ CliMode
  /\ wpc[w] = "hs_resp"
  /\ LET m == from_json(wframe[w].text) IN
       IF m.payload.is_response = "true"
         THEN /\ HandlerReturns(w, "handshake")
              /\ UNCHANGED <<responses, eff>>
         ELSE /\ cryptoL.owner = NoOwner
              /\ responses' = responses \cup
                   {[by |-> w, to |-> m.sender_id, is_response |-> TRUE,
                     signed |-> signed_after_lock(cryptoL.poisoned, keyLoaded),
                     st |-> "spawned"]}
              /\ eff' = [eff EXCEPT ![w] = @ \cup {"response"}]
              /\ HandlerReturns(w, "handshake")
  /\ UNCHANGED <<mode, auxVars, wverified, deskVars, valVars, sendVars, keyLoaded, handlerSet, cryptoL, pmL, storL, contacts,
                 online, messages, wframe, fpc, fleft, fcur>>

\* cli.rs:489-497 with tor_service.rs:457-499  the response thread dials the
\* peer and sends; it holds no lock.
ResponseThreadSends(r, ok) ==
  /\ CliMode
  /\ r \in responses
  /\ r.st = "spawned"
  /\ responses' = (responses \ {r}) \cup {[r EXCEPT !.st = IF ok THEN "sent" ELSE "failed"]}
  /\ UNCHANGED <<mode, auxVars, wverified, deskVars, valVars, sendVars, procVars, wpc, wframe, wout, wreply, eff, fpc, fleft, fcur>>

\* cli.rs:507-545  verify_message under the crypto lock (the result is only
\* printed; false when the lock is poisoned), then the three STRICT checks on
\* the payload.  The parsed payload is a new map, iterating in an order of
\* its own.
TextVerify(w, order) ==
  /\ CliMode
  /\ wpc[w] = "tx_verify"
  /\ cryptoL.owner = NoOwner
  /\ LET m == from_json(wframe[w].text) IN
       /\ order \in Orderings(PayloadKeys(m.payload))
       /\ wverified' = [wverified EXCEPT ![w] =
            IF ~cryptoL.poisoned /\ verify_message(m, order) THEN "true" ELSE "false"]
       /\ IF m.payload.encrypted # "true"
            THEN HandlerReturns(w, "unencrypted")
          ELSE IF m.payload.data = DataAbsent
            THEN HandlerReturns(w, "no_data")
          ELSE IF m.payload.data = DataMalformed
            THEN HandlerReturns(w, "bad_data")
          ELSE wpc' = [wpc EXCEPT ![w] = "tx_dec"] /\ UNCHANGED <<wout, wreply, mhL>>
  /\ UNCHANGED <<mode, auxVars, deskVars, valVars, sendVars, keyLoaded, handlerSet, cryptoL, pmL, storL, contacts,
                 online, messages, wframe, eff, responses, fpc, fleft, fcur>>

\* cli.rs:548  match crypto.lock().unwrap().decrypt_message(..): the guard
\* lives until the end of the match, so the store is locked under it.
TextDecrypt(w) ==
  /\ CliMode
  /\ wpc[w] = "tx_dec"
  /\ cryptoL.owner = NoOwner
  /\ LET m == from_json(wframe[w].text)
         out == decrypt_outcome(keyLoaded, m.payload.data) IN
       IF cryptoL.poisoned
         THEN WorkerPanics(w)
       ELSE IF out = "panic"
         THEN /\ wpc' = [wpc EXCEPT ![w] = "panicked"]
              /\ wout' = [wout EXCEPT ![w] = "panic"]
              /\ mhL' = Unwind(mhL, WorkerT(w))
              /\ cryptoL' = [owner |-> NoOwner, poisoned |-> TRUE]
              /\ UNCHANGED <<wreply, pmL, storL>>
       ELSE IF out = "err"
         THEN HandlerReturns(w, "decrypt_error") /\ UNCHANGED <<cryptoL, pmL, storL>>
       ELSE /\ cryptoL' = Held(cryptoL, WorkerT(w))
            /\ wpc' = [wpc EXCEPT ![w] = "tx_save"]
            /\ UNCHANGED <<wout, wreply, mhL, pmL, storL>>
  /\ UNCHANGED <<mode, auxVars, wverified, deskVars, valVars, sendVars, keyLoaded, handlerSet, contacts, online, messages,
                 wframe, eff, responses, fpc, fleft, fcur>>

\* cli.rs:555-563  if let Ok(s) = storage.lock() { save_message(.., false) }
TextSave(w) ==
  /\ CliMode
  /\ wpc[w] = "tx_save"
  /\ storL.owner = NoOwner
  /\ LET m == from_json(wframe[w].text)
         row == Row(m.id, "text", m.sender_id, m.recipient_id,
                    m.payload.data.plain, m.timestamp, FALSE) IN
       IF storL.poisoned
         THEN UNCHANGED <<messages, eff>>
         ELSE /\ messages' = save_message(messages, row)
              /\ eff' = [eff EXCEPT ![w] =
                           IF save_message_inserted(messages, row)
                             THEN @ \cup {"stored"} ELSE @ \cup {"duplicate"}]
  /\ cryptoL' = Release(cryptoL, WorkerT(w))
  /\ HandlerReturns(w, "text")
  /\ UNCHANGED <<mode, auxVars, wverified, deskVars, valVars, sendVars, keyLoaded, handlerSet, pmL, storL, contacts, online,
                 wframe, responses, fpc, fleft, fcur>>

\* snf.rs:202-305 as called at cli.rs:121-125  fetch_offline_messages returns
\* an error, or the packages found under this address.
FetchReturns(ok, n) ==
  /\ CliMode
  /\ fpc = "fetching"
  /\ IF ok /\ n > 0
       THEN fpc' = "next" /\ fleft' = n
       ELSE fpc' = "done" /\ UNCHANGED fleft
  /\ UNCHANGED <<mode, auxVars, wverified, deskVars, valVars, sendVars, procVars, wpc, wframe, wout, wreply, eff, responses, fcur>>

\* cli.rs:125-127  for pkg in messages { let crypto_l = crypto_fetch.lock().unwrap();
FetchLockCrypto(pkg) ==
  /\ CliMode
  /\ fpc = "next"
  /\ IF fleft = 0
       THEN fpc' = "done" /\ UNCHANGED <<fleft, fcur, cryptoL>>
       ELSE /\ cryptoL.owner = NoOwner
            /\ fleft' = fleft - 1
            /\ fcur' = pkg
            /\ IF cryptoL.poisoned
                 THEN fpc' = "panicked" /\ UNCHANGED cryptoL
                 ELSE fpc' = "outer" /\ cryptoL' = Held(cryptoL, FetchT)
  /\ UNCHANGED <<mode, auxVars, wverified, deskVars, valVars, sendVars, keyLoaded, handlerSet, mhL, pmL, storL, contacts, online,
                 messages, wpc, wframe, wout, wreply, eff, responses>>

\* cli.rs:128-130  outer decryption and Message::from_json; a package that
\* fails either is skipped (crypto_l is dropped at the end of the iteration)
FetchOuterDecrypt ==
  /\ CliMode
  /\ fpc = "outer"
  /\ LET out == decrypt_outcome(keyLoaded, fcur.encrypted_message) IN
       IF out = "panic"
         THEN fpc' = "panicked" /\ cryptoL' = Unwind(cryptoL, FetchT)
       ELSE IF out = "ok" /\ from_json_ok(fcur.encrypted_message.plain)
         THEN fpc' = "relock" /\ UNCHANGED cryptoL
       ELSE fpc' = "next" /\ cryptoL' = Release(cryptoL, FetchT)
  /\ UNCHANGED <<mode, auxVars, wverified, deskVars, valVars, sendVars, keyLoaded, handlerSet, mhL, pmL, storL, contacts, online,
                 messages, wpc, wframe, wout, wreply, eff, responses, fleft, fcur>>

\* cli.rs:134  if let Ok(c) = crypto_fetch.lock() while crypto_l, the guard of
\* the same mutex taken at line 127 by this thread, is alive.  Locking a
\* std::sync::Mutex on the thread that holds it does not return: it blocks for
\* ever or it panics.  Lines 135-157 (verify, inner decryption, save_message)
\* come after this call.
FetchRelockBlocks ==
  /\ CliMode
  /\ fpc = "relock"
  /\ cryptoL.owner = FetchT
  /\ fpc' = "deadlocked"
  /\ UNCHANGED <<mode, auxVars, wverified, deskVars, valVars, sendVars, procVars, wpc, wframe, wout, wreply, eff, responses,
                 fleft, fcur>>

FetchRelockPanics ==
  /\ CliMode
  /\ fpc = "relock"
  /\ cryptoL.owner = FetchT
  /\ fpc' = "panicked"
  /\ cryptoL' = Unwind(cryptoL, FetchT)
  /\ UNCHANGED <<mode, auxVars, wverified, deskVars, valVars, sendVars, keyLoaded, handlerSet, mhL, pmL, storL, contacts, online,
                 messages, wpc, wframe, wout, wreply, eff, responses, fleft, fcur>>

WorkerStep(w) ==
  \/ LockHandler(w)
  \/ HandlerEntry(w)
  \/ HandshakeLockPeers(w)
  \/ HandshakeUpsert(w)
  \/ HandshakeRespond(w)
  \/ \E order \in KeyOrders : TextVerify(w, order)
  \/ TextDecrypt(w)
  \/ TextSave(w)

FetchStep ==
  \/ \E ok \in BOOLEAN, n \in 0..MaxPkgs : FetchReturns(ok, n)
  \/ \E pkg \in FetchPackages : FetchLockCrypto(pkg)
  \/ FetchOuterDecrypt
  \/ FetchRelockBlocks
  \/ FetchRelockPanics

Frames == IF mode \in {"store", "known"} THEN StoreFrames ELSE NodeFrames

\* the command-line process
NextCli ==
  \/ SetMessageHandler
  \/ \E w \in Workers, f \in Frames : Accept(w, f)
  \/ \E w \in Workers : WorkerStep(w)
  \/ \E r \in responses, ok \in BOOLEAN : ResponseThreadSends(r, ok)
  \/ FetchStep

(***************************************************************************)
(* The desktop front end (ui-desktop/rust/src/api.rs) over the same        *)
(* listener.  Its state lives in process-wide mutexes: STORAGE (storL),    *)
(* CRYPTO (cryptoL), PEER_MANAGER (pmL) and TOR_SERVICE (torL).            *)
(*                                                                         *)
(* Init is the state inside start_tor after service.start() returned       *)
(* (api.rs:110-119): the listener is accepting, the handler was given to   *)
(* TorService::new, the main thread holds the TOR_SERVICE guard and the    *)
(* identity key is not loaded yet.  The desktop starts no fetch thread.    *)
(***************************************************************************)
InitDesktop ==
  /\ mode = "desktop"
  /\ ValIdle
  /\ NodeIdle
  /\ SendIdle
  /\ keyLoaded = FALSE
  /\ handlerSet = TRUE
  /\ mhL = FreeLock
  /\ cryptoL = FreeLock
  /\ pmL = FreeLock
  /\ storL = FreeLock
  /\ torL = Held(FreeLock, MainT)
  /\ webq = <<>>
  /\ newCount = 0
  /\ AuxIdle
  /\ contacts = [a \in Addresses |-> NoContact]
  /\ online = {}
  /\ messages = {}

\* api.rs:26
WEB_CONTACT_ADDRESS == "web_messages_contact"

\* api.rs:307-315 and 530-538  the first 12 ASCII alphanumerics of the address
default_nickname(sender) ==
  CASE sender = "pa.onion" -> "paonion"
    [] sender = "pb.onion" -> "pbonion"
    [] OTHER -> "meonion"

\* api.rs:124-142  the rest of start_tor: the identity key is loaded under the
\* CRYPTO lock, or a warning is printed, and the TOR_SERVICE guard is dropped
\* at the return.
StartTorReturns(loaded) ==
  /\ mode = "desktop"
  /\ torL.owner = MainT
  /\ cryptoL.owner = NoOwner
  /\ keyLoaded' = (loaded /\ ~cryptoL.poisoned)
  /\ torL' = Release(torL, MainT)
  /\ UNCHANGED <<mode, auxVars, valVars, sendVars, nodeVars, webq, newCount, handlerSet, mhL,
                 cryptoL, pmL, storL, contacts, online, messages>>

\* api.rs:174-239  handle_incoming_message up to the call of the handler of
\* the kind.  validate_message is not called.
DesktopEntry(w) ==
  /\ mode = "desktop"
  /\ wpc[w] = "handler"
  /\ LET msg_str == HandlerInput(wframe[w]).text IN
       IF msg_str.k = "no"
         THEN HandlerReturns(w, "not_json")
       ELSE IF msg_str.k = "web"
         THEN wpc' = [wpc EXCEPT ![w] = "dweb"] /\ UNCHANGED <<wout, wreply, mhL>>
       ELSE IF ~from_json_ok(msg_str)
         THEN HandlerReturns(w, "bad_format")
       ELSE IF from_json(msg_str).sender_id = None
         THEN HandlerReturns(w, "no_sender")
       ELSE IF from_json(msg_str).type = "handshake"
         THEN wpc' = [wpc EXCEPT ![w] = "dh_store"] /\ UNCHANGED <<wout, wreply, mhL>>
       ELSE IF from_json(msg_str).type = "text"
         THEN IF from_json(msg_str).payload.encrypted # "true"
                THEN HandlerReturns(w, "unencrypted")
                ELSE wpc' = [wpc EXCEPT ![w] = "dt_contact"] /\ UNCHANGED <<wout, wreply, mhL>>
       ELSE IF from_json(msg_str).type \in {"image", "audio", "file"}
         THEN IF from_json(msg_str).payload.encrypted # "true"
                THEN HandlerReturns(w, "unencrypted")
                ELSE wpc' = [wpc EXCEPT ![w] = "dt_dec"] /\ UNCHANGED <<wout, wreply, mhL>>
       ELSE HandlerReturns(w, "ignored")
  /\ UNCHANGED <<mode, auxVars, wverified, valVars, sendVars, deskVars, keyLoaded, handlerSet, cryptoL, pmL,
                 storL, contacts, online, messages, wframe, eff, responses, fpc, fleft, fcur>>

\* api.rs:242-290  handle_web_message: queue the message, save a row under a
\* fresh identifier, count it
DesktopWebMessage(w) ==
  /\ mode = "desktop"
  /\ wpc[w] = "dweb"
  /\ storL.owner = NoOwner
  /\ LET msg_id == Uuid(nextUuid)
         row == Row(msg_id, "web_message", WEB_CONTACT_ADDRESS, None,
                    [k |-> "web"], clock, FALSE) IN
       /\ webq' = Append(webq, msg_id)
       /\ IF storL.poisoned
            THEN UNCHANGED <<messages, eff>>
            ELSE /\ messages' = save_message(messages, row)
                 /\ eff' = [eff EXCEPT ![w] = @ \cup {"stored"}]
  /\ nextUuid' = nextUuid + 1
  /\ newCount' = newCount + 1
  /\ HandlerReturns(w, "web")
  /\ UNCHANGED <<mode, auxVars, wverified, valVars, sjob, dht, clock, torL, keyLoaded, handlerSet, cryptoL,
                 pmL, storL, contacts, online, wframe, responses, fpc, fleft, fcur>>

\* api.rs:302-321  under the STORAGE lock the sender becomes a contact unless
\* it is one already
DesktopHandshakeContact(w) ==
  /\ mode = "desktop"
  /\ wpc[w] = "dh_store"
  /\ storL.owner = NoOwner
  /\ LET sender_id == from_json(wframe[w].text).sender_id IN
       IF ~storL.poisoned /\ contacts[sender_id] = NoContact
         THEN /\ contacts' = add_contact(contacts, sender_id, default_nickname(sender_id), None)
              /\ eff' = [eff EXCEPT ![w] = @ \cup {"contact"}]
         ELSE UNCHANGED <<contacts, eff>>
  /\ wpc' = [wpc EXCEPT ![w] = "dh_online"]
  /\ UNCHANGED <<mode, auxVars, wverified, valVars, sendVars, deskVars, keyLoaded, handlerSet, mhL, cryptoL, pmL,
                 storL, online, messages, wframe, wout, wreply, responses, fpc, fleft, fcur>>

\* api.rs:323-328 with peer.rs:79-98  under the PEER_MANAGER lock
\* mark_peer_online inserts into active_connections and rewrites the contact
\* row with what it read
DesktopHandshakeOnline(w) ==
  /\ mode = "desktop"
  /\ wpc[w] = "dh_online"
  /\ pmL.owner = NoOwner
  /\ LET sender_id == from_json(wframe[w].text).sender_id IN
       IF pmL.poisoned
         THEN UNCHANGED <<online, contacts, eff>>
         ELSE /\ online' = online \cup {sender_id}
              /\ contacts' = IF contacts[sender_id] = NoContact
                               THEN contacts
                               ELSE add_contact(contacts, sender_id,
                                                contacts[sender_id].nickname,
                                                contacts[sender_id].public_key)
              /\ eff' = [eff EXCEPT ![w] = @ \cup {"online"}]
  /\ wpc' = [wpc EXCEPT ![w] = "dh_resp"]
  /\ UNCHANGED <<mode, auxVars, wverified, valVars, sendVars, deskVars, keyLoaded, handlerSet, mhL, cryptoL, pmL,
                 storL, messages, wframe, wout, wreply, responses, fpc, fleft, fcur>>

\* api.rs:330-355  is_response (false when absent): get_onion_address takes
\* TOR_SERVICE.lock().unwrap(), the response handshake is built and handed to
\* a new thread as it is: sign_message is not called.
DesktopHandshakeRespond(w) ==
  /\ mode = "desktop"
  /\ wpc[w] = "dh_resp"
  /\ LET m == from_json(wframe[w].text) IN
       IF m.payload.is_response = "true"
         THEN /\ HandlerReturns(w, "handshake")
              /\ UNCHANGED <<responses, eff, cryptoL, pmL, storL>>
         ELSE /\ torL.owner = NoOwner
              /\ IF torL.poisoned
                   THEN WorkerPanics(w) /\ UNCHANGED <<responses, eff>>
                   ELSE /\ responses' = responses \cup
                             {[by |-> w, to |-> m.sender_id, is_response |-> TRUE,
                               signed |-> FALSE, st |-> "spawned"]}
                        /\ eff' = [eff EXCEPT ![w] = @ \cup {"response"}]
                        /\ HandlerReturns(w, "handshake")
                        /\ UNCHANGED <<cryptoL, pmL, storL>>
  /\ UNCHANGED <<mode, auxVars, wverified, valVars, sendVars, deskVars, keyLoaded, handlerSet, contacts,
                 online, messages, wframe, fpc, fleft, fcur>>

\* api.rs:342-343  the response thread takes TOR_SERVICE.lock().unwrap()
DesktopResponseLock(r) ==
  /\ mode = "desktop"
  /\ r \in responses
  /\ r.st = "spawned"
  /\ torL.owner = NoOwner
  /\ IF torL.poisoned
       THEN /\ responses' = (responses \ {r}) \cup {[r EXCEPT !.st = "panicked"]}
            /\ UNCHANGED torL
       ELSE /\ responses' = (responses \ {r}) \cup {[r EXCEPT !.st = "sending"]}
            /\ torL' = Held(torL, RespT(r.by))
  /\ UNCHANGED <<mode, auxVars, wverified, valVars, sendVars, procVars, webq, newCount, wpc, wframe, wout,
                 wreply, eff, fpc, fleft, fcur>>

\* api.rs:344-352 with tor_service.rs:457-499  it dials the peer and sends
\* while it holds the guard, which is dropped when the thread ends
DesktopResponseSend(r, ok) ==
  /\ mode = "desktop"
  /\ r \in responses
  /\ r.st = "sending"
  /\ responses' = (responses \ {r}) \cup {[r EXCEPT !.st = IF ok THEN "sent" ELSE "failed"]}
  /\ torL' = Release(torL, RespT(r.by))
  /\ UNCHANGED <<mode, auxVars, wverified, valVars, sendVars, procVars, webq, newCount, wpc, wframe, wout,
                 wreply, eff, fpc, fleft, fcur>>

\* api.rs:493-522  handle_text_message: the two checks on "data", then
\* `let storage_guard = STORAGE.lock().ok()`, a guard that lives to the end of
\* the block, and the look-up of the sender among the contacts
DesktopTextContact(w) ==
  /\ mode = "desktop"
  /\ wpc[w] = "dt_contact"
  /\ LET m == from_json(wframe[w].text) IN
       IF m.payload.data = DataAbsent
         THEN HandlerReturns(w, "no_data") /\ UNCHANGED storL
       ELSE IF m.payload.data = DataMalformed
         THEN HandlerReturns(w, "bad_data") /\ UNCHANGED storL
       ELSE /\ storL.owner = NoOwner
            /\ UNCHANGED <<wout, wreply, mhL>>
            /\ IF storL.poisoned
                 THEN wpc' = [wpc EXCEPT ![w] = "dt_dec"] /\ UNCHANGED storL
               ELSE IF contacts[m.sender_id] # NoContact
                 THEN wpc' = [wpc EXCEPT ![w] = "dt_dec"] /\ UNCHANGED storL
               ELSE /\ wpc' = [wpc EXCEPT ![w] = "dt_relock"]
                    /\ storL' = Held(storL, WorkerT(w))
  /\ UNCHANGED <<mode, auxVars, wverified, valVars, sendVars, deskVars, keyLoaded, handlerSet, cryptoL, pmL,
                 contacts, online, messages, wframe, eff, responses, fpc, fleft, fcur>>

\* api.rs:524-527  for a sender that is no contact yet: `if let Ok(..) =
\* STORAGE.lock()` while storage_guard, the guard of the same mutex taken at
\* line 518 by this thread, is alive.  The call does not return: it blocks
\* for ever or it panics.  The add_contact of lines 528-541 comes after it.
DesktopTextRelockBlocks(w) ==
  /\ mode = "desktop"
  /\ wpc[w] = "dt_relock"
  /\ storL.owner = WorkerT(w)
  /\ wpc' = [wpc EXCEPT ![w] = "deadlocked"]
  /\ UNCHANGED <<mode, auxVars, wverified, valVars, sendVars, deskVars, procVars, wframe, wout, wreply, eff,
                 responses, fpc, fleft, fcur>>

DesktopTextRelockPanics(w) ==
  /\ mode = "desktop"
  /\ wpc[w] = "dt_relock"
  /\ storL.owner = WorkerT(w)
  /\ WorkerPanics(w)
  /\ UNCHANGED <<mode, auxVars, wverified, valVars, sendVars, deskVars, keyLoaded, handlerSet, contacts,
                 online, messages, wframe, eff, responses, fpc, fleft, fcur>>

\* api.rs:547-549 (text) and 584-607 (media, after its own two checks on
\* "data")  decrypt_message under `if let Ok(crypto_guard) = CRYPTO.lock()`
DesktopDecrypt(w) ==
  /\ mode = "desktop"
  /\ wpc[w] = "dt_dec"
  /\ LET m == from_json(wframe[w].text)
         out == decrypt_outcome(keyLoaded, m.payload.data) IN
       IF m.payload.data = DataAbsent
         THEN HandlerReturns(w, "no_data") /\ UNCHANGED <<cryptoL, pmL, storL>>
       ELSE IF m.payload.data = DataMalformed
         THEN HandlerReturns(w, "bad_data") /\ UNCHANGED <<cryptoL, pmL, storL>>
       ELSE /\ cryptoL.owner = NoOwner
            /\ IF cryptoL.poisoned
                 THEN HandlerReturns(w, "crypto_poisoned") /\ UNCHANGED <<cryptoL, pmL, storL>>
               ELSE IF out = "panic"
                 THEN /\ wpc' = [wpc EXCEPT ![w] = "panicked"]
                      /\ wout' = [wout EXCEPT ![w] = "panic"]
                      /\ mhL' = Unwind(mhL, WorkerT(w))
                      /\ cryptoL' = [owner |-> NoOwner, poisoned |-> TRUE]
                      /\ UNCHANGED <<wreply, pmL, storL>>
               ELSE IF out = "err"
                 THEN HandlerReturns(w, "decrypt_error") /\ UNCHANGED <<cryptoL, pmL, storL>>
               ELSE /\ cryptoL' = Held(cryptoL, WorkerT(w))
                    /\ wpc' = [wpc EXCEPT ![w] = "dt_save"]
                    /\ UNCHANGED <<wout, wreply, mhL, pmL, storL>>
  /\ UNCHANGED <<mode, auxVars, wverified, valVars, sendVars, deskVars, keyLoaded, handlerSet, contacts,
                 online, messages, wframe, eff, responses, fpc, fleft, fcur>>

\* api.rs:553-572 (text) and 616-654 (media)  save_message(.., false) under
\* the STORAGE lock, then the counter of new messages
DesktopSave(w) ==
  /\ mode = "desktop"
  /\ wpc[w] = "dt_save"
  /\ storL.owner = NoOwner
  /\ LET m == from_json(wframe[w].text)
         payload == IF m.type = "text"
                      THEN m.payload.data.plain
                      ELSE [k |-> "file", text |-> m.payload.data.plain]
         row == Row(m.id, m.type, m.sender_id, m.recipient_id, payload,
                    m.timestamp, FALSE) IN
       IF storL.poisoned
         THEN UNCHANGED <<messages, eff>>
         ELSE /\ messages' = save_message(messages, row)
              /\ eff' = [eff EXCEPT ![w] =
                           IF save_message_inserted(messages, row)
                             THEN @ \cup {"stored"} ELSE @ \cup {"duplicate"}]
  /\ newCount' = newCount + 1
  /\ cryptoL' = Release(cryptoL, WorkerT(w))
  /\ HandlerReturns(w, IF from_json(wframe[w].text).type = "text" THEN "text" ELSE "media")
  /\ UNCHANGED <<mode, auxVars, wverified, valVars, sendVars, torL, webq, keyLoaded, handlerSet, pmL, storL,
                 contacts, online, wframe, responses, fpc, fleft, fcur>>

DesktopWorkerStep(w) ==
  \/ DesktopEntry(w)
  \/ DesktopWebMessage(w)
  \/ DesktopHandshakeContact(w)
  \/ DesktopHandshakeOnline(w)
  \/ DesktopHandshakeRespond(w)
  \/ DesktopTextContact(w)
  \/ DesktopTextRelockBlocks(w)
  \/ DesktopTextRelockPanics(w)
  \/ DesktopDecrypt(w)
  \/ DesktopSave(w)

DesktopResponseStep ==
  \/ \E r \in responses : DesktopResponseLock(r)
  \/ \E r \in responses, ok \in BOOLEAN : DesktopResponseSend(r, ok)

\* the desktop process, beyond the listener steps it shares with the command
\* line (Accept, LockHandler)
NextDesktop ==
  \/ \E loaded \in BOOLEAN : StartTorReturns(loaded)
  \/ \E w \in Workers : DesktopWorkerStep(w)
  \/ DesktopResponseStep

NextNode == NextCli \/ NextDesktop

\* a process with either front end
SpecNode == (InitNode \/ InitDesktop) /\ [][NextNode]_vars

InitStore ==
  /\ mode = "store"
  /\ InitProcess

SpecStore == InitStore /\ [][NextCli]_vars

\* cli.rs:257-301, storage.rs:227-244  contact tables of a process that was
\* used before: pa.onion is unknown, was added with the nickname alice, or was
\* added by an earlier handshake (no nickname, its key)
KnownContacts ==
  { [a \in Addresses |-> IF a = "pa.onion" THEN row ELSE NoContact] :
      row \in {NoContact, ContactRow("alice", None), ContactRow(None, "pk")} }

InitKnown ==
  /\ mode = "known"
  /\ \E tbl \in KnownContacts : InitProcessKnowing(tbl)

\* the command-line process started over the contacts of earlier runs
SpecKnown == InitKnown /\ [][NextCli]_vars

\* the fetch thread is a running thread: a step of it that stays possible is
\* eventually taken
SpecStoreFair == SpecStore /\ WF_vars(FetchStep)

(***************************************************************************)
(* SpecSend: the /send command of the shell (cli.rs:314-388), the direct   *)
(* delivery (tor_service.rs:457-499) and the DHT fallback (snf.rs:37-199). *)
(***************************************************************************)
InitSend ==
  /\ mode = "send"
  /\ ValIdle
  /\ NodeIdle
  /\ SendIdle
  /\ DeskIdle
  /\ AuxIdle
  /\ keyLoaded \in BOOLEAN
  /\ handlerSet = TRUE
  /\ mhL = FreeLock
  /\ cryptoL = FreeLock
  /\ pmL = FreeLock
  /\ storL = FreeLock
  /\ contacts = [a \in Addresses |-> NoContact]
  /\ online = {}
  /\ messages = {}

\* the wall clock advances
Tick ==
  /\ mode = "send"
  /\ clock < NowT + MaxTick
  /\ clock' = clock + 1
  /\ UNCHANGED <<mode, auxVars, deskVars, valVars, procVars, nodeVars, sjob, dht, nextUuid>>

\* cli.rs:314-334  the shell reads "/send <to> <text>", encrypts under the
\* crypto lock (lock().unwrap()) and wraps the envelope in a new message
SendEncrypt(j, to) ==
  /\ mode = "send"
  /\ sjob[j].pc = "new"
  /\ \A i \in Jobs : i < j => sjob[i].pc \notin {"new", "encrypted"}
  /\ cryptoL.owner = NoOwner
  /\ IF cryptoL.poisoned
       THEN /\ sjob' = [sjob EXCEPT ![j].pc = "main_panicked"]
            /\ UNCHANGED nextUuid
     ELSE IF ~OnionValid(to)
       THEN /\ sjob' = [sjob EXCEPT ![j].pc = "done", ![j].to = to,
                                    ![j].report = "encrypt_error"]
            /\ UNCHANGED nextUuid
     ELSE /\ sjob' = [sjob EXCEPT
                 ![j].pc = "encrypted", ![j].to = to,
                 ![j].env = encrypt_message(TextOf("hi"), to),
                 ![j].msg = wrap_encrypted_message(Uuid(nextUuid), clock,
                              encrypt_message(TextOf("hi"), to), Me, to)]
          /\ nextUuid' = nextUuid + 1
  /\ UNCHANGED <<mode, auxVars, deskVars, valVars, procVars, nodeVars, dht, clock>>

\* cli.rs:337-351  sign under the crypto lock (a failure to lock or to sign is
\* ignored), serialise, spawn the sending thread
SendSign(j) ==
  /\ mode = "send"
  /\ sjob[j].pc = "encrypted"
  /\ cryptoL.owner = NoOwner
  /\ sjob' = [sjob EXCEPT
       ![j].pc = "spawned",
       ![j].msg = IF cryptoL.poisoned THEN @ ELSE sign_message(@, LoadedKey(keyLoaded), iter_order(@.payload))]
  /\ UNCHANGED <<mode, auxVars, deskVars, valVars, procVars, nodeVars, dht, clock, nextUuid>>

\* cli.rs:352  match tor.send_message(&peer, &json)
DirectSend(j, o) ==
  /\ mode = "send"
  /\ sjob[j].pc = "spawned"
  /\ sjob' = [sjob EXCEPT
       ![j].wire = o,
       ![j].res = send_message(o),
       ![j].pc = IF took_ok_arm(send_message(o)) THEN "ok_arm" ELSE "err_arm"]
  /\ UNCHANGED <<mode, auxVars, deskVars, valVars, procVars, nodeVars, dht, clock, nextUuid>>

\* cli.rs:353-363  Ok(_): "Sent to ..." is printed and the message is saved
\* with is_sent = true
SendPersist(j) ==
  /\ mode = "send"
  /\ sjob[j].pc = "ok_arm"
  /\ storL.owner = NoOwner
  /\ messages' =
       IF storL.poisoned THEN messages
       ELSE save_message(messages,
              Row(sjob[j].msg.id, "text", Me, sjob[j].to, TextOf("hi"),
                  sjob[j].msg.timestamp, TRUE))
  /\ sjob' = [sjob EXCEPT ![j].pc = "done", ![j].report = "sent"]
  /\ UNCHANGED <<mode, auxVars, deskVars, valVars, keyLoaded, handlerSet, mhL, cryptoL, pmL, storL,
                 contacts, online, nodeVars, dht, clock, nextUuid>>

\* cli.rs:364-370  Err(e): the thread takes the crypto lock (lock().unwrap())
\* for the whole of the upload
FallbackLock(j) ==
  /\ mode = "send"
  /\ sjob[j].pc = "err_arm"
  /\ cryptoL.owner = NoOwner
  /\ IF cryptoL.poisoned
       THEN sjob' = [sjob EXCEPT ![j].pc = "panicked"] /\ UNCHANGED cryptoL
       ELSE sjob' = [sjob EXCEPT ![j].pc = "upload"] /\ cryptoL' = Held(cryptoL, SendT(j))
  /\ UNCHANGED <<mode, auxVars, deskVars, valVars, keyLoaded, handlerSet, mhL, pmL, storL, contacts,
                 online, messages, nodeVars, dht, clock, nextUuid>>

\* snf.rs:37-199 as called at cli.rs:371-376  upload_and_announce(peer, sender,
\* encrypted_data, crypto): wrap the envelope in a new message, sign it (an
\* error ends the upload), encrypt its JSON for the recipient, put the package
\* under the recipient's key.  Nothing is saved to the store.
UploadAndAnnounce(j, o) ==
  /\ mode = "send"
  /\ sjob[j].pc = "upload"
  /\ LET msg == wrap_encrypted_message(Uuid(nextUuid), clock, sjob[j].env, Me, sjob[j].to)
         package == Staged(sjob[j].to, to_json(sign_message(msg, Me, iter_order(msg.payload))))
         result == IF ~keyLoaded THEN "sign_error" ELSE o IN
       /\ sjob' = [sjob EXCEPT
            ![j].pc = "done",
            ![j].upload = result,
            ![j].pkg = IF result \in {"confirmed", "timeout_stored"} THEN package ELSE @,
            ![j].report = IF result \in {"sign_error", "error"}
                            THEN "backup_failed" ELSE "staged"]
       /\ dht' = IF result \in {"confirmed", "timeout_stored"}
                   THEN dht \cup {package} ELSE dht
  /\ nextUuid' = nextUuid + 1
  /\ cryptoL' = Release(cryptoL, SendT(j))
  /\ UNCHANGED <<mode, auxVars, deskVars, valVars, keyLoaded, handlerSet, mhL, pmL, storL, contacts,
                 online, messages, nodeVars, clock>>

NextSend ==
  \/ Tick
  \/ \E j \in Jobs, to \in Peers \cup {InvalidAddress} : SendEncrypt(j, to)
  \/ \E j \in Jobs : SendSign(j)
  \/ \E j \in Jobs, o \in WireOutcomes : DirectSend(j, o)
  \/ \E j \in Jobs : SendPersist(j)
  \/ \E j \in Jobs : FallbackLock(j)
  \/ \E j \in Jobs, o \in PutOutcomes : UploadAndAnnounce(j, o)

SpecSend == InitSend /\ [][NextSend]_vars

(***************************************************************************)
(* SpecAdd: adding a contact, from the shell (cli.rs:257-301) or through   *)
(* the desktop API (api.rs:865-931).  Commands are issued one after the    *)
(* other; each spawns a thread that sends the handshake.                   *)
(***************************************************************************)
Adds == 1..MaxAdds

AddInputs == Peers \cup {Me, InvalidAddress}

NoHandshake == create_ping_message("", NowT, None)

NewAdd ==
  [pc |-> "new", addr |-> None, before |-> [a \in Addresses |-> NoContact],
   res |-> "none", hs |-> NoHandshake, st |-> "none"]

InitAdd ==
  /\ mode \in {"add_cli", "add_desktop"}
  /\ ValIdle
  /\ NodeIdle
  /\ SendIdle
  /\ DeskIdle
  /\ WipeIdle
  /\ PureIdle
  /\ keyLoaded \in BOOLEAN
  /\ handlerSet = TRUE
  /\ mhL = FreeLock
  /\ cryptoL = FreeLock
  /\ pmL = FreeLock
  /\ storL = FreeLock
  /\ contacts \in {[a \in Addresses |-> NoContact],
                   [a \in Addresses |-> IF a = "pa.onion"
                                          THEN ContactRow("alice", None) ELSE NoContact]}
  /\ online = {}
  /\ messages = {}
  /\ ajob = [j \in Adds |-> NewAdd]

\* peer.rs:34-42  add_peer: storage.lock().unwrap(), then add_contact
add_peer(tbl, onion_address, nickname, public_key) ==
  add_contact(tbl, onion_address, nickname, public_key)

\* cli.rs:257-301  /add <addr> [nickname]: the address goes to add_peer as it
\* was typed.  For the own address the contact is written and nothing is
\* sent; otherwise a handshake with is_response = false is built, signed
\* under the crypto lock (a failure is ignored) and handed to a new thread.
CliAdd(j, addr, nickname) ==
  /\ mode = "add_cli"
  /\ ajob[j].pc = "new"
  /\ \A i \in Adds : i < j => ajob[i].pc # "new"
  /\ pmL.owner = NoOwner /\ ~pmL.poisoned
  /\ storL.owner = NoOwner /\ ~storL.poisoned
  /\ cryptoL.owner = NoOwner
  /\ contacts' = add_peer(contacts, addr, nickname, None)
  /\ IF addr = Me
       THEN /\ ajob' = [ajob EXCEPT ![j] =
                 [@ EXCEPT !.pc = "done", !.addr = addr, !.before = contacts,
                           !.res = "added"]]
            /\ UNCHANGED nextUuid
       ELSE /\ ajob' = [ajob EXCEPT ![j] =
                 [@ EXCEPT !.pc = "spawned", !.addr = addr, !.before = contacts,
                           !.res = "added", !.st = "spawned",
                           !.hs = LET handshake ==
                                        create_handshake_message(Uuid(nextUuid), clock, Me, FALSE)
                                  IN IF cryptoL.poisoned THEN handshake
                                     ELSE sign_message(handshake, LoadedKey(keyLoaded),
                                                       iter_order(handshake.payload))]]
            /\ nextUuid' = nextUuid + 1
  /\ UNCHANGED <<mode, valVars, nodeVars, deskVars, wipeVars, pureVars, sjob, dht, clock,
                 keyLoaded, handlerSet, mhL, cryptoL, pmL, storL, online, messages>>

\* cli.rs:291-297  the handshake thread: tor.send_message(&peer, &json)
CliHandshakeThread(j, o) ==
  /\ mode = "add_cli"
  /\ ajob[j].pc = "spawned"
  /\ ajob' = [ajob EXCEPT ![j] =
       [@ EXCEPT !.pc = "done", !.st = IF send_message(o).ok THEN "sent" ELSE "failed"]]
  /\ UNCHANGED <<mode, valVars, procVars, nodeVars, sendVars, deskVars, wipeVars, pureVars>>

\* api.rs:865-890  add_contact: under the STORAGE lock an address that
\* onion_to_pubkey rejects ends the call with an error; otherwise the contact
\* row is written and a thread is spawned for the handshake.
DesktopAddContact(j, addr, nickname) ==
  /\ mode = "add_desktop"
  /\ ajob[j].pc = "new"
  /\ \A i \in Adds : i < j => ajob[i].pc # "new"
  /\ storL.owner = NoOwner /\ ~storL.poisoned
  /\ IF ~OnionValid(addr)
       THEN /\ ajob' = [ajob EXCEPT ![j] =
                 [@ EXCEPT !.pc = "done", !.addr = addr, !.before = contacts,
                           !.res = "invalid_address"]]
            /\ UNCHANGED contacts
       ELSE /\ contacts' = add_contact(contacts, addr, nickname, None)
            /\ ajob' = [ajob EXCEPT ![j] =
                 [@ EXCEPT !.pc = "spawned", !.addr = addr, !.before = contacts,
                           !.res = "added", !.st = "spawned"]]
  /\ UNCHANGED <<mode, valVars, nodeVars, sendVars, deskVars, wipeVars, pureVars,
                 keyLoaded, handlerSet, mhL, cryptoL, pmL, storL, online, messages>>

\* api.rs:893-931  send_handshake_to_contact on the spawned thread: build the
\* handshake (is_response = false), sign it under the CRYPTO lock, where an
\* error of sign_message ends the call, then send under the TOR_SERVICE lock.
DesktopSendHandshake(j, o) ==
  /\ mode = "add_desktop"
  /\ ajob[j].pc = "spawned"
  /\ torL.owner = NoOwner /\ ~torL.poisoned
  /\ cryptoL.owner = NoOwner
  /\ LET handshake == create_handshake_message(Uuid(nextUuid), clock, Me, FALSE)
         signed == IF cryptoL.poisoned THEN handshake
                   ELSE sign_message(handshake, LoadedKey(keyLoaded),
                                     iter_order(handshake.payload)) IN
       IF ~cryptoL.poisoned /\ ~sign_with_onion_key_ok(LoadedKey(keyLoaded))
         THEN ajob' = [ajob EXCEPT ![j] = [@ EXCEPT !.pc = "done", !.st = "sign_error"]]
         ELSE ajob' = [ajob EXCEPT ![j] =
                [@ EXCEPT !.pc = "done", !.hs = signed,
                          !.st = IF send_message(o).ok THEN "sent" ELSE "failed"]]
  /\ nextUuid' = nextUuid + 1
  /\ UNCHANGED <<mode, valVars, procVars, nodeVars, deskVars, wipeVars, pureVars,
                 sjob, dht, clock>>

Nicknames == {None, "alice"}

NextAdd ==
  \/ \E j \in Adds, addr \in AddInputs, nickname \in Nicknames : CliAdd(j, addr, nickname)
  \/ \E j \in Adds, o \in WireOutcomes : CliHandshakeThread(j, o)
  \/ \E j \in Adds, addr \in AddInputs : DesktopAddContact(j, addr, "alice")
  \/ \E j \in Adds, o \in WireOutcomes : DesktopSendHandshake(j, o)

SpecAdd == InitAdd /\ [][NextAdd]_vars

(***************************************************************************)
(* SpecWipe: the files of the base directory, the Tor daemon and the       *)
(* /delete-all command of the shell (cli.rs:234-256), followed by the      *)
(* shutdown and the next start of the program.  The tables `messages' and  *)
(* `contacts' are the contents of messages.db.                             *)
(***************************************************************************)
MaxRuns == 3
MaxKeys == 3

\* what the user can type at the confirmation prompt, with the newline that
\* read_line keeps
ConfirmLines ==
  { <<"y", "nl">>, <<"Y", "nl">>, <<" ", "y", " ", "nl">>, <<"n", "nl">>,
    <<"nl">>, <<"y", "e", "s", "nl">> }

IsWhitespace(c) == c \in {" ", "nl"}

RECURSIVE trim_start(_)
trim_start(s) ==
  IF s # <<>> /\ IsWhitespace(Head(s)) THEN trim_start(Tail(s)) ELSE s

RECURSIVE trim_end(_)
trim_end(s) ==
  IF s # <<>> /\ IsWhitespace(s[Len(s)])
    THEN trim_end(SubSeq(s, 1, Len(s) - 1)) ELSE s

\* str::trim
trim(s) == trim_end(trim_start(s))

lower_char(c) == IF c = "Y" THEN "y" ELSE c

\* str::to_lowercase
to_lowercase(s) == [i \in 1..Len(s) |-> lower_char(s[i])]

\* cli.rs:238  confirm.trim().to_lowercase() == "y"
Confirmed(line) == to_lowercase(trim(line)) = <<"y">>

\* the hostname Tor derives from the identity key of the hidden service
HostnameOf(key) == <<"onion-of-key", key>>
NoAddress == <<>>
\* no identity key file in the hidden-service directory
NoKey == 0

EmptyContacts == [a \in Addresses |-> NoContact]

WipeRowSet ==
  { Row("w1", "text", "pa.onion", Me, "hi", NowT, FALSE),
    Row("w2", "text", Me, "pa.onion", "yo", NowT, TRUE) }

InitWipe ==
  /\ mode = "wipe"
  /\ ValIdle
  /\ NodeIdle
  /\ SendIdle
  /\ DeskIdle
  /\ AddIdle
  /\ PureIdle
  /\ keyLoaded = FALSE
  /\ handlerSet = FALSE
  /\ mhL = FreeLock
  /\ cryptoL = FreeLock
  /\ pmL = FreeLock
  /\ storL = FreeLock
  /\ online = {}
  /\ \E hadRun \in BOOLEAN, staleLock \in BOOLEAN :
       /\ messages \in (IF hadRun THEN SUBSET WipeRowSet ELSE {{}})
       /\ contacts \in (IF hadRun
                          THEN {EmptyContacts,
                                add_contact(EmptyContacts, "pa.onion", "alice", None)}
                          ELSE {EmptyContacts})
       /\ wipe = [pc |-> "off", db |-> hadRun, lock |-> hadRun /\ staleLock,
                  identity |-> IF hadRun THEN 1 ELSE NoKey,
                  made |-> IF hadRun THEN 1 ELSE 0,
                  daemon |-> FALSE, address |-> NoAddress, before |-> NoAddress,
                  wiped |-> FALSE, runs |-> 0]

\* cli.rs:28-87  the start of run_cli: MessageStorage::new creates
\* messages.db and its tables when they are missing (storage.rs:50-60,
\* 67-118); TorService::start (tor_service.rs:264-357) removes a stale lock
\* file and starts Tor on the hidden-service directory, which keeps an
\* existing identity key and makes a new one only when there is none; the
\* address is read from the hostname file; the key is loaded for signing.
Startup ==
  /\ mode = "wipe"
  /\ wipe.pc = "off"
  /\ wipe.runs < MaxRuns
  /\ wipe.identity # NoKey \/ wipe.made < MaxKeys
  /\ LET key == IF wipe.identity = NoKey THEN wipe.made + 1 ELSE wipe.identity
     IN  /\ wipe' = [wipe EXCEPT !.pc = "prompt", !.db = TRUE, !.lock = TRUE,
                                 !.identity = key,
                                 !.made = IF key > @ THEN key ELSE @,
                                 !.daemon = TRUE, !.address = HostnameOf(key),
                                 !.runs = @ + 1]
         /\ keyLoaded' = TRUE
         /\ handlerSet' = TRUE
  /\ UNCHANGED <<mode, valVars, nodeVars, sendVars, deskVars, addVars, pureVars,
                 mhL, cryptoL, pmL, storL, contacts, online, messages>>

\* while the program runs, messages and contacts arrive in the store
\* (storage.rs:121-149, 227-244)
WipeStoreFills ==
  /\ mode = "wipe"
  /\ wipe.pc = "prompt"
  /\ \/ \E r \in WipeRowSet :
          /\ messages' = save_message(messages, r)
          /\ UNCHANGED contacts
     \/ /\ contacts' = add_contact(contacts, "pa.onion", "alice", None)
        /\ UNCHANGED messages
  /\ UNCHANGED <<mode, valVars, nodeVars, sendVars, deskVars, auxVars,
                 keyLoaded, handlerSet, mhL, cryptoL, pmL, storL, online>>

\* cli.rs:234-238, 254-256  /delete-all: the prompt and the answer
WipeAsk(line) ==
  /\ mode = "wipe"
  /\ wipe.pc = "prompt"
  /\ wipe' = [wipe EXCEPT !.pc = IF Confirmed(line) THEN "clear" ELSE "prompt",
                          !.before = IF Confirmed(line) THEN wipe.address ELSE @]
  /\ UNCHANGED <<mode, valVars, procVars, nodeVars, sendVars, deskVars, addVars,
                 pureVars>>

\* the store's wipe(): every message and every contact is deleted
clear_all_data_messages(tbl) == {}
clear_all_data_contacts(tbl) == [a \in DOMAIN tbl |-> NoContact]

\* cli.rs:241-244  if let Ok(s) = storage.lock() { s.clear_all_data() }
WipeClear ==
  /\ mode = "wipe"
  /\ wipe.pc = "clear"
  /\ storL.owner = NoOwner
  /\ IF storL.poisoned
       THEN UNCHANGED <<messages, contacts>>
       ELSE /\ messages' = clear_all_data_messages(messages)
            /\ contacts' = clear_all_data_contacts(contacts)
  /\ wipe' = [wipe EXCEPT !.pc = "stop"]
  /\ UNCHANGED <<mode, valVars, nodeVars, sendVars, deskVars, addVars, pureVars,
                 keyLoaded, handlerSet, mhL, cryptoL, pmL, storL, online>>

\* tor_service.rs:502-522  stop: the child is killed and waited for, other
\* Tor processes on the data directory are killed (229-262), the lock file
\* is removed.  Nothing under hidden_service is touched.
stop(w) == [w EXCEPT !.daemon = FALSE, !.lock = FALSE]

\* cli.rs:247  tor_service.stop()
WipeStopTor ==
  /\ mode = "wipe"
  /\ wipe.pc = "stop"
  /\ wipe' = [stop(wipe) EXCEPT !.pc = "remove"]
  /\ UNCHANGED <<mode, valVars, procVars, nodeVars, sendVars, deskVars, addVars,
                 pureVars>>

\* cli.rs:250-253, 393-396  remove_file(db_path()), break, and the cleanup
\* after the loop, which calls stop() again
WipeRemoveDb ==
  /\ mode = "wipe"
  /\ wipe.pc = "remove"
  /\ wipe' = [stop(wipe) EXCEPT !.pc = "off", !.db = FALSE, !.wiped = TRUE]
  /\ messages' = {}
  /\ contacts' = EmptyContacts
  /\ keyLoaded' = FALSE
  /\ handlerSet' = FALSE
  /\ UNCHANGED <<mode, valVars, nodeVars, sendVars, deskVars, addVars, pureVars,
                 mhL, cryptoL, pmL, storL, online>>

\* cli.rs:210-212, 393-396  /quit: the loop ends and stop() runs
WipeQuit ==
  /\ mode = "wipe"
  /\ wipe.pc = "prompt"
  /\ wipe' = [stop(wipe) EXCEPT !.pc = "off", !.wiped = FALSE]
  /\ keyLoaded' = FALSE
  /\ handlerSet' = FALSE
  /\ UNCHANGED <<mode, valVars, nodeVars, sendVars, deskVars, addVars, pureVars,
                 mhL, cryptoL, pmL, storL, contacts, online, messages>>

NextWipe ==
  \/ Startup
  \/ WipeStoreFills
  \/ \E line \in ConfirmLines : WipeAsk(line)
  \/ WipeClear
  \/ WipeStopTor
  \/ WipeRemoveDb
  \/ WipeQuit

SpecWipe == InitWipe /\ [][NextWipe]_vars

(***************************************************************************)
(* The curve arithmetic behind the identities (crypto.rs:93-107, 187-194). *)
(* The prime-order group is modelled by the integers modulo 31 under       *)
(* addition, with base point 1.  An Edwards point keeps its sign; a        *)
(* Montgomery u-coordinate is an Edwards point up to sign.  Scalars are    *)
(* 7-bit integers; a clamped scalar has its three low bits clear and its   *)
(* top bit set.                                                            *)
(***************************************************************************)
\* the clamping of X25519 and of the expanded secret key
clamp(s) == 64 + ((s % 64) - (s % 8))

\* scalar times the Edwards base point
EdBaseMul(s) == s % 31

\* the class of a point up to sign
MontClass(x) == IF (31 - x) % 31 < x THEN (31 - x) % 31 ELSE x

\* to_montgomery keeping the sign of the Edwards point
to_montgomery_signed(P) == P

\* curve25519-dalek  EdwardsPoint::to_montgomery
to_montgomery(P) == MontClass(P)

\* crypto.rs:187-194  ed25519_pk_to_x25519: a VerifyingKey always decompresses
ed25519_pk_to_x25519(ed_pk) == to_montgomery(ed_pk)

\* x25519-dalek  diffie_hellman: the clamped scalar times the u-coordinate
diffie_hellman(sk, u) == MontClass((clamp(sk) * u) % 31)

\* x25519-dalek  PublicKey::from(&StaticSecret): the scalar times the base u
XPublicKey_from(sk) == diffie_hellman(sk, to_montgomery(1))

\* crypto.rs:93-107  get_x25519_secret_from_tor_key: the first 32 bytes of the
\* expanded secret key a Tor hidden service holds, which Tor has clamped
ExpandedScalar(identity) ==
  CASE identity = Me -> clamp(0)
    [] identity = "pa.onion" -> clamp(8)
    [] identity = "pb.onion" -> clamp(16)

\* the verifying key of an identity, which its address encodes
VerifyingKeyOf(identity) == EdBaseMul(ExpandedScalar(identity))

(***************************************************************************)
(* ECIES (crypto.rs:110-185) on the byte level that decides the outcome.   *)
(* A base64 field is [b64, len, ...]: whether the text is base64, how many *)
(* bytes it decodes to, and their content.                                 *)
(***************************************************************************)
Ok(v) == [k |-> "ok", v |-> v]
Err(kind) == [k |-> "err", kind |-> kind]
Panic == [k |-> "panic"]

\* HKDF-SHA256 with the fixed info string: a function of the shared secret
hkdf_expand(shared_secret) == <<"okm", shared_secret>>

\* ChaCha20Poly1305 encrypt: the ciphertext with its tag
aead_encrypt(key, nonce, plaintext) ==
  [key |-> key, nonce |-> nonce, pt |-> plaintext, intact |-> TRUE]

\* ChaCha20Poly1305 decrypt: the tag authenticates only the untouched
\* ciphertext under the key and the nonce it was made with
aead_decrypt(key, nonce, ct) ==
  IF ct.intact /\ ct.key = key /\ ct.nonce = nonce THEN Ok(ct.pt) ELSE Err("Decryption")

\* crypto.rs:110-146  encrypt_message with the random ephemeral secret and
\* the random nonce it draws
ecies_encrypt(message, recipient_onion, ephemeral_sk, nonce_bytes) ==
  IF ~OnionValid(recipient_onion) THEN Err("Encryption")
  ELSE LET recipient_x_pk == ed25519_pk_to_x25519(VerifyingKeyOf(recipient_onion))
           shared_secret == diffie_hellman(ephemeral_sk, recipient_x_pk)
           okm == hkdf_expand(shared_secret)
       IN  Ok([encrypted_message |->
                 [b64 |-> TRUE, ct |-> aead_encrypt(okm, nonce_bytes, message)],
               ephemeral_public_key |->
                 [b64 |-> TRUE, len |-> 32, u |-> XPublicKey_from(ephemeral_sk), hi |-> 0],
               nonce |-> [b64 |-> TRUE, len |-> 12, v |-> nonce_bytes]])

\* decrypt_message that takes the nonce before it looks for the identity key
ecies_decrypt_nonce_first(identity, data) ==
  IF data.nonce.b64 /\ data.nonce.len # 12 THEN Panic
  ELSE IF identity = None THEN Err("Decryption")
  ELSE IF ~data.ephemeral_public_key.b64 THEN Err("Decryption")
  ELSE IF data.ephemeral_public_key.len # 32 THEN Err("Decryption")
  ELSE IF ~data.nonce.b64 THEN Err("Decryption")
  ELSE IF ~data.encrypted_message.b64 THEN Err("Decryption")
  ELSE aead_decrypt(hkdf_expand(diffie_hellman(ExpandedScalar(identity),
                                               data.ephemeral_public_key.u)),
                    data.nonce.v, data.encrypted_message.ct)

\* crypto.rs:149-185  decrypt_message by the handler of `identity' (None: no
\* key loaded).  The top bit of the ephemeral key is ignored by the
\* Montgomery ladder; Nonce::from_slice panics unless it gets 12 bytes.
ecies_decrypt(identity, data) ==
  IF identity = None THEN Err("Decryption")
  ELSE IF ~data.ephemeral_public_key.b64 THEN Err("Decryption")
  ELSE IF data.ephemeral_public_key.len # 32 THEN Err("Decryption")
  ELSE LET shared_secret ==
             diffie_hellman(ExpandedScalar(identity), data.ephemeral_public_key.u)
           okm == hkdf_expand(shared_secret)
       IN  IF ~data.nonce.b64 THEN Err("Decryption")
           ELSE IF data.nonce.len # 12 THEN Panic
           ELSE IF ~data.encrypted_message.b64 THEN Err("Decryption")
           ELSE aead_decrypt(okm, data.nonce.v, data.encrypted_message.ct)

Identities == Peers \cup {Me}
Plaintexts == {"", "hello"}
\* the values the random generators can deliver
EphemeralSecrets == {3, 10, 20}
NonceValues == {"n1", "n2"}

\* what can happen to an envelope between the two calls
Tampers ==
  {"none", "ciphertext", "ciphertext_b64", "nonce", "nonce_len", "nonce_b64",
   "ephemeral", "ephemeral_top_bit", "ephemeral_len", "ephemeral_b64"}

\* another u-coordinate; as in the real group, it leads no identity to the
\* shared secret of an honest envelope
OtherU(u) ==
  CHOOSE v \in 1..15 :
    /\ v # u
    /\ \A r \in Identities, b \in Identities, e \in EphemeralSecrets :
         diffie_hellman(ExpandedScalar(r), v)
           # diffie_hellman(e, ed25519_pk_to_x25519(VerifyingKeyOf(b)))
OtherNonce(n) == CHOOSE v \in NonceValues : v # n

Tampered(data, t) ==
  CASE t = "none" -> data
    [] t = "ciphertext" -> [data EXCEPT !.encrypted_message.ct.intact = FALSE]
    [] t = "ciphertext_b64" -> [data EXCEPT !.encrypted_message.b64 = FALSE]
    [] t = "nonce" -> [data EXCEPT !.nonce.v = OtherNonce(@)]
    [] t = "nonce_len" -> [data EXCEPT !.nonce.len = 11]
    [] t = "nonce_b64" -> [data EXCEPT !.nonce.b64 = FALSE]
    [] t = "ephemeral" -> [data EXCEPT !.ephemeral_public_key.u = OtherU(@)]
    [] t = "ephemeral_top_bit" -> [data EXCEPT !.ephemeral_public_key.hi = 1 - @]
    [] t = "ephemeral_len" -> [data EXCEPT !.ephemeral_public_key.len = 31]
    [] t = "ephemeral_b64" -> [data EXCEPT !.ephemeral_public_key.b64 = FALSE]

PureRest ==
  /\ ValIdle
  /\ ProcIdle
  /\ NodeIdle
  /\ SendIdle
  /\ DeskIdle
  /\ AddIdle
  /\ WipeIdle

InitEcies ==
  /\ mode = "ecies"
  /\ PureRest
  /\ pin \in [f : {"ecies"}, a : Identities, b : Identities,
              reader : Identities \cup {None}, p : Plaintexts]
  /\ ppc = "start"
  /\ pout = [f |-> "none"]

pureUnchanged ==
  UNCHANGED <<mode, valVars, procVars, nodeVars, sendVars, deskVars, addVars, wipeVars, pin>>

\* A's handler encrypts p to the address of B
EciesEncrypt(ephemeral_sk, nonce_bytes) ==
  /\ mode = "ecies"
  /\ ppc = "start"
  /\ pout' = [f |-> "ecies", tamper |-> "none",
              env |-> ecies_encrypt(pin.p, pin.b, ephemeral_sk, nonce_bytes).v]
  /\ ppc' = "encrypted"
  /\ pureUnchanged

\* the envelope travels, unchanged or changed in one field
EciesTransit(t) ==
  /\ mode = "ecies"
  /\ ppc = "encrypted"
  /\ pout' = [pout EXCEPT !.tamper = t, !.env = Tampered(@, t)]
  /\ ppc' = "wire"
  /\ pureUnchanged

\* the reader's handler decrypts what arrived
EciesDecrypt ==
  /\ mode = "ecies"
  /\ ppc = "wire"
  /\ pout' = [f |-> "ecies", tamper |-> pout.tamper, env |-> pout.env,
              res |-> ecies_decrypt(pin.reader, pout.env)]
  /\ ppc' = "done"
  /\ pureUnchanged

NextEcies ==
  \/ \E e \in EphemeralSecrets, n \in NonceValues : EciesEncrypt(e, n)
  \/ \E t \in Tampers : EciesTransit(t)
  \/ EciesDecrypt

SpecEcies == InitEcies /\ [][NextEcies]_vars

(***************************************************************************)
(* SpecSig: sign_with_onion_key under one identity, then                   *)
(* verify_with_onion_address of a message against an address               *)
(* (crypto.rs:212-243).                                                    *)
(***************************************************************************)
SigTexts == {"", "hello", "modified message"}

InitSig ==
  /\ mode = "sig"
  /\ PureRest
  /\ pin \in [f : {"sig"}, a : Identities, m : SigTexts,
              addr : Addresses, m2 : SigTexts, garble : BOOLEAN]
  /\ ppc = "start"
  /\ pout = [f |-> "none"]

\* A's handler signs m
SigSign ==
  /\ mode = "sig"
  /\ ppc = "start"
  /\ sign_with_onion_key_ok(pin.a)
  /\ pout' = [f |-> "sig", sig |-> sign_with_onion_key(pin.a, pin.m)]
  /\ ppc' = "signed"
  /\ pureUnchanged

\* the signature string arrives, as it was or as something that is no
\* base64 of 64 bytes
SigTransit ==
  /\ mode = "sig"
  /\ ppc = "signed"
  /\ pout' = [pout EXCEPT !.sig = IF pin.garble THEN BadSigString ELSE @]
  /\ ppc' = "wire"
  /\ pureUnchanged

\* any handler verifies m2 against the address
SigVerify ==
  /\ mode = "sig"
  /\ ppc = "wire"
  /\ pout' = [f |-> "sig", sig |-> pout.sig,
              res |-> verify_with_onion_address(pin.m2, pout.sig, pin.addr)]
  /\ ppc' = "done"
  /\ pureUnchanged

NextSig == SigSign \/ SigTransit \/ SigVerify

SpecSig == InitSig /\ [][NextSig]_vars

(***************************************************************************)
(* SpecCanon: a message is signed in one process, serialised, parsed in    *)
(* another process and verified there (message.rs:78-85, 160-212).  Each   *)
(* process holds the payload in a HashMap of its own, which iterates in    *)
(* an order of its own.                                                    *)
(***************************************************************************)
\* the message a helper builds for the sender
CanonMessage(a, h) == [Built(h) EXCEPT !.sender_id = a]

InitCanon ==
  /\ mode = "canon"
  /\ PureRest
  /\ pin \in [f : {"canon"}, a : Identities, h : Helpers]
  /\ ppc = "start"
  /\ pout = [f |-> "none"]

\* the sender signs; its map iterates in the order o
CanonSign(o) ==
  /\ mode = "canon"
  /\ ppc = "start"
  /\ o \in Orderings(PayloadKeys(CanonMessage(pin.a, pin.h).payload))
  /\ pout' = [f |-> "canon", msg |-> sign_message(CanonMessage(pin.a, pin.h), pin.a, o)]
  /\ ppc' = "signed"
  /\ pureUnchanged

\* to_json by the sender, from_json by the receiver
CanonWire ==
  /\ mode = "canon"
  /\ ppc = "signed"
  /\ from_json_ok(to_json(pout.msg))
  /\ pout' = [f |-> "canon", msg |-> pout.msg, parsed |-> from_json(to_json(pout.msg))]
  /\ ppc' = "parsed"
  /\ pureUnchanged

\* the receiver verifies; its map iterates in the order o
CanonVerify(o) ==
  /\ mode = "canon"
  /\ ppc = "parsed"
  /\ o \in Orderings(PayloadKeys(pout.parsed.payload))
  /\ pout' = [f |-> "canon", msg |-> pout.msg, parsed |-> pout.parsed,
              order |-> o, res |-> verify_message(pout.parsed, o)]
  /\ ppc' = "done"
  /\ pureUnchanged

CanonOrders == UNION {Orderings(PayloadKeys(Built(h).payload)) : h \in Helpers}

NextCanon ==
  \/ \E o \in CanonOrders : CanonSign(o)
  \/ CanonWire
  \/ \E o \in CanonOrders : CanonVerify(o)

SpecCanon == InitCanon /\ [][NextCanon]_vars

(***************************************************************************)
(* SpecDh: the two ways to the Diffie-Hellman public key of an identity    *)
(* (crypto.rs:187-194 and the test at crypto.rs:355-381).                  *)
(***************************************************************************)
\* the first 32 bytes of SHA-512 of a seed, before clamping: any 7-bit value
HashedSeeds == 0..127

InitDh ==
  /\ mode = "dh"
  /\ PureRest
  /\ pin \in [f : {"dh"}, seed : HashedSeeds]
  /\ ppc = "start"
  /\ pout = [f |-> "none"]

\* crypto.rs:361-368 and 66-91  the expanded scalar, clamped as Tor clamps
\* it, and the verifying key scalar * G
DhExpand ==
  /\ mode = "dh"
  /\ ppc = "start"
  /\ pout' = [f |-> "dh", scalar |-> clamp(pin.seed),
              ed_pk |-> EdBaseMul(clamp(pin.seed))]
  /\ ppc' = "expanded"
  /\ pureUnchanged

\* crypto.rs:371-372  XPublicKey::from(&StaticSecret::from(scalar))
DhFromSecret ==
  /\ mode = "dh"
  /\ ppc = "expanded"
  /\ pout' = [f |-> "dh", scalar |-> pout.scalar, ed_pk |-> pout.ed_pk,
              x_pk_from_sk |-> XPublicKey_from(pout.scalar)]
  /\ ppc' = "from_sk"
  /\ pureUnchanged

\* crypto.rs:375-376  ed25519_pk_to_x25519(&ed_pk)
DhFromPublic ==
  /\ mode = "dh"
  /\ ppc = "from_sk"
  /\ pout' = [f |-> "dh", scalar |-> pout.scalar, ed_pk |-> pout.ed_pk,
              x_pk_from_sk |-> pout.x_pk_from_sk,
              x_pk_from_pk |-> ed25519_pk_to_x25519(pout.ed_pk)]
  /\ ppc' = "done"
  /\ pureUnchanged

NextDh == DhExpand \/ DhFromSecret \/ DhFromPublic

SpecDh == InitDh /\ [][NextDh]_vars

(***************************************************************************)
(* SpecOnion: onion_to_pubkey (crypto.rs:245-262).  An address text is     *)
(* described by what the decoder looks at: white space before and after,   *)
(* a body of a number of characters that are all of the base-32 alphabet   *)
(* or not, in upper or lower case, with the bytes they decode to, and the  *)
(* ".onion" suffixes that follow the body, written in lower or upper case. *)
(***************************************************************************)
\* 32 bytes that are no compressed point of the curve
NotAPoint == 40
IsCurvePoint(pk) == pk \in 0..30

OnionText(lead, body, nsuf, sufUpper, trail) ==
  [lead |-> lead, body |-> body, nsuf |-> nsuf, sufUpper |-> sufUpper, trail |-> trail]

OnionBody(len, b32, upper, pk, ver) ==
  [len |-> len, b32 |-> b32, upper |-> upper, pk |-> pk, ver |-> ver]

\* str::trim
onion_trim(t) == [t EXCEPT !.lead = 0, !.trail = 0]

\* str::trim_end_matches(".onion"): every trailing lower-case ".onion" goes
trim_end_matches_onion(t) ==
  IF t.trail = 0 /\ ~t.sufUpper THEN [t EXCEPT !.nsuf = 0] ELSE t

\* str::to_lowercase
onion_to_lowercase(t) == [t EXCEPT !.body.upper = FALSE, !.sufUpper = FALSE]

\* str::len
onion_len(t) == t.lead + t.body.len + 6 * t.nsuf + t.trail

\* base32::decode (RFC 4648, no padding): None unless every character is of
\* the alphabet (either case); else len * 5 / 8 bytes
base32_decode_ok(t) == t.lead = 0 /\ t.trail = 0 /\ t.nsuf = 0 /\ t.body.b32
base32_decoded_len(t) == (t.body.len * 5) \div 8

\* ed25519-dalek  VerifyingKey::from_bytes: the bytes must decompress
VerifyingKey_from_bytes(pk) == IF IsCurvePoint(pk) THEN Ok(pk) ELSE Err("address")

\* crypto.rs:245-262  onion_to_pubkey
onion_to_pubkey(onion) ==
  LET t == onion_to_lowercase(trim_end_matches_onion(onion_trim(onion)))
  IN  IF onion_len(t) # 56 THEN Err("address")
      ELSE IF ~base32_decode_ok(t) THEN Err("address")
      ELSE IF base32_decoded_len(t) # 35 THEN Err("address")
      ELSE IF t.body.ver # 3 THEN Err("address")
      ELSE VerifyingKey_from_bytes(t.body.pk)

\* crypto.rs:269-276  the address of a verifying key: base-32, lower case,
\* of the key, two checksum bytes and the version byte 3, then ".onion"
onion_encode(pk) == OnionText(0, OnionBody(56, TRUE, FALSE, pk, 3), 1, FALSE, 0)

OnionKeys == {VerifyingKeyOf(i) : i \in Identities} \cup {NotAPoint}

OnionTexts ==
  { OnionText(lead, OnionBody(len, b32, upper, pk, ver), nsuf, sufUpper, trail) :
      lead \in 0..1, trail \in 0..1, len \in 55..57, b32 \in BOOLEAN,
      upper \in BOOLEAN, pk \in OnionKeys, ver \in 2..3, nsuf \in 0..2,
      sufUpper \in BOOLEAN }

InitOnion ==
  /\ mode = "onion"
  /\ PureRest
  /\ pin \in [f : {"onion"}, text : {t \in OnionTexts : t.nsuf = 0 => ~t.sufUpper}]
  /\ ppc = "start"
  /\ pout = [f |-> "none"]

OnionDecode ==
  /\ mode = "onion"
  /\ ppc = "start"
  /\ pout' = [f |-> "onion", res |-> onion_to_pubkey(pin.text)]
  /\ ppc' = "done"
  /\ pureUnchanged

NextOnion == OnionDecode

SpecOnion == InitOnion /\ [][NextOnion]_vars

(***************************************************************************)
(* SpecGate: one CryptoHandler from CryptoHandler::new on                  *)
(* (crypto.rs:56-63), and the calls made on it in any order.  pin is the   *)
(* handler: the raw expanded key and the verifying key it holds, and       *)
(* whether set_onion_signing_key has succeeded; pout is the last call.     *)
(***************************************************************************)
\* crypto.rs:56-63  CryptoHandler::new
NewHandler == [f |-> "gate", raw |-> None, vk |-> None, succeeded |-> FALSE]

\* the key files handed to set_onion_signing_key: their length and the
\* identity whose expanded key they hold
KeyFiles == [len : {32, 63, 64, 65}, of : Identities]

\* crypto.rs:66-91  set_onion_signing_key: the handler afterwards
set_onion_signing_key(handler, key_bytes) ==
  IF key_bytes.len # 64 THEN handler
  ELSE [handler EXCEPT !.raw = key_bytes.of,
                       !.vk = key_bytes.of,
                       !.succeeded = TRUE]

\* crypto.rs:66-91  set_onion_signing_key: what it returns
set_onion_signing_key_result(key_bytes) ==
  IF key_bytes.len # 64 THEN Err("Signature") ELSE Ok("unit")

\* crypto.rs:212-226  sign_with_onion_key on a handler
handler_sign(handler, message) ==
  IF handler.raw = None THEN Err("Signature")
  ELSE IF handler.vk = None THEN Err("Signature")
  ELSE Ok(sign_with_onion_key(handler.raw, message))

\* the envelopes a peer can hand in
GateEnvelopes ==
  { Tampered(ecies_encrypt("hello", b, 3, "n1").v, t) :
      b \in Identities, t \in {"none", "nonce_len", "ephemeral_len"} }

InitGate ==
  /\ mode = "gate"
  /\ PureRest
  /\ pin = NewHandler
  /\ ppc = "ready"
  /\ pout = [f |-> "gate", call |-> "new"]

GateSetKey(key_bytes) ==
  /\ mode = "gate"
  /\ pin' = set_onion_signing_key(pin, key_bytes)
  /\ pout' = [f |-> "gate", call |-> "set_onion_signing_key", before |-> pin,
              len |-> key_bytes.len, res |-> set_onion_signing_key_result(key_bytes)]
  /\ UNCHANGED <<mode, valVars, procVars, nodeVars, sendVars, deskVars, addVars, wipeVars, ppc>>

GateDecrypt(data) ==
  /\ mode = "gate"
  /\ pout' = [f |-> "gate", call |-> "decrypt_message", before |-> pin,
              data |-> data, res |-> ecies_decrypt(pin.raw, data)]
  /\ UNCHANGED <<mode, valVars, procVars, nodeVars, sendVars, deskVars, addVars, wipeVars, ppc, pin>>

GateSign(message) ==
  /\ mode = "gate"
  /\ pout' = [f |-> "gate", call |-> "sign_with_onion_key", before |-> pin,
              res |-> handler_sign(pin, message)]
  /\ UNCHANGED <<mode, valVars, procVars, nodeVars, sendVars, deskVars, addVars, wipeVars, ppc, pin>>

GateEncrypt(message, recipient_onion) ==
  /\ mode = "gate"
  /\ pout' = [f |-> "gate", call |-> "encrypt_message", before |-> pin,
              to |-> recipient_onion,
              res |-> ecies_encrypt(message, recipient_onion, 3, "n1")]
  /\ UNCHANGED <<mode, valVars, procVars, nodeVars, sendVars, deskVars, addVars, wipeVars, ppc, pin>>

GateVerify(signer, onion_address) ==
  /\ mode = "gate"
  /\ pout' = [f |-> "gate", call |-> "verify_with_onion_address", before |-> pin,
              signer |-> signer, address |-> onion_address,
              res |-> Ok(verify_with_onion_address("hello",
                           sign_with_onion_key(signer, "hello"), onion_address))]
  /\ UNCHANGED <<mode, valVars, procVars, nodeVars, sendVars, deskVars, addVars, wipeVars, ppc, pin>>

NextGate ==
  \/ \E key_bytes \in KeyFiles : GateSetKey(key_bytes)
  \/ \E data \in GateEnvelopes : GateDecrypt(data)
  \/ \E message \in SigTexts : GateSign(message)
  \/ \E message \in Plaintexts, to \in Addresses : GateEncrypt(message, to)
  \/ \E signer \in Identities, a \in Identities : GateVerify(signer, a)

SpecGate == InitGate /\ [][NextGate]_vars

(***************************************************************************)
(* SpecDial: the host and the port send_message dials                      *)
(* (tor_service.rs:457-479).  An address text is the sequence of its       *)
(* parts between colons, each part a sequence of characters; a host name   *)
(* counts as one character that is no digit.                               *)
(***************************************************************************)
HIDDEN_SERVICE_PORT == 8080
HIDDEN_SERVICE_VIRTUAL_PORT == 80

Digits == <<"0", "1", "2", "3", "4", "5", "6", "7", "8", "9">>
IsDigit(c) == \E i \in 1..10 : Digits[i] = c
DigitValue(c) == (CHOOSE i \in 1..10 : Digits[i] = c) - 1

\* the decimal text of a number, as format! writes it
RECURSIVE Decimal(_)
Decimal(n) ==
  IF n < 10 THEN <<Digits[n + 1]>> ELSE Decimal(n \div 10) \o <<Digits[(n % 10) + 1]>>

RECURSIVE DigitsValue(_)
DigitsValue(s) ==
  IF s = <<>> THEN 0 ELSE DigitsValue(SubSeq(s, 1, Len(s) - 1)) * 10 + DigitValue(s[Len(s)])

\* str::parse::<u16>: an optional plus sign, at least one digit, only
\* digits, and a value that fits 16 bits
parse_u16(s) ==
  LET body == IF s # <<>> /\ Head(s) = "+" THEN Tail(s) ELSE s
  IN  IF body = <<>> THEN Err("parse")
      ELSE IF \E i \in 1..Len(body) : ~IsDigit(body[i]) THEN Err("parse")
      ELSE IF DigitsValue(body) > 65535 THEN Err("parse")
      ELSE Ok(DigitsValue(body))

\* Result::unwrap_or
unwrap_or(r, default) == IF r.k = "ok" THEN r.v ELSE default

\* the parts joined with colons again
DialHost(parts) == parts

\* send_message that falls back to the local port of the hidden service
dial_target_local_port(onion_address) ==
  IF Len(onion_address) > 1
    THEN [host |-> DialHost(SubSeq(onion_address, 1, Len(onion_address) - 1)),
          port |-> unwrap_or(parse_u16(onion_address[Len(onion_address)]),
                             HIDDEN_SERVICE_PORT)]
    ELSE [host |-> DialHost(onion_address), port |-> HIDDEN_SERVICE_PORT]

\* tor_service.rs:462-471  contains(':'), rsplitn(2, ':'): the text before
\* the last colon is the host, the text after it the port, 80 if it does not
\* parse; without a colon the whole text is the host and the port is 80
dial_target(onion_address) ==
  IF Len(onion_address) > 1
    THEN [host |-> DialHost(SubSeq(onion_address, 1, Len(onion_address) - 1)),
          port |-> unwrap_or(parse_u16(onion_address[Len(onion_address)]),
                             HIDDEN_SERVICE_VIRTUAL_PORT)]
    ELSE [host |-> DialHost(onion_address), port |-> HIDDEN_SERVICE_VIRTUAL_PORT]

DialHosts == {<<<<"pa.onion">>>>, <<<<"pb.onion">>>>, <<<<"me.onion">>>>,
              <<<<"[">>, <<>>, <<"1", "]">>>>}
DialPorts == {0, 1, 7, 80, 443, 8080, 9350, 65535}
DialBadPortTexts ==
  {<<>>, <<"+">>, <<"x">>, <<"8", "0", "x">>, <<"-", "1">>, <<" ", "8", "0">>,
   Decimal(65536), Decimal(70000), <<"8", "0", "8", "0", "0", "0">>}

\* the address texts: a host alone ("bare" when it holds no colon itself), a
\* host with a port written in decimal (with or without a plus sign), a host
\* with something else after the last colon
DialInputs ==
  { [host |-> h, kind |-> IF Len(h) = 1 THEN "bare" ELSE "bad", n |-> 0, text |-> h] :
       h \in DialHosts }
  \cup { [host |-> h, kind |-> "port", n |-> n, text |-> h \o <<Decimal(n)>>] :
           h \in DialHosts, n \in DialPorts }
  \cup { [host |-> h, kind |-> "port", n |-> n, text |-> h \o <<<<"+">> \o Decimal(n)>>] :
           h \in DialHosts, n \in DialPorts }
  \cup { [host |-> h, kind |-> "bad", n |-> 0, text |-> h \o <<t>>] :
           h \in DialHosts, t \in DialBadPortTexts }

InitDial ==
  /\ mode = "dial"
  /\ PureRest
  /\ pin \in {[f |-> "dial", input |-> i] : i \in DialInputs}
  /\ ppc = "start"
  /\ pout = [f |-> "none"]

\* tor_service.rs:473-479  Socks5Stream::connect(proxy, (host, port))
Dial ==
  /\ mode = "dial"
  /\ ppc = "start"
  /\ pout' = [f |-> "dial", target |-> dial_target(pin.input.text)]
  /\ ppc' = "done"
  /\ pureUnchanged

NextDial == Dial

SpecDial == InitDial /\ [][NextDial]_vars

(***************************************************************************)
(* SpecPublish: the event loop of upload_and_announce (snf.rs:124-198) and *)
(* the report of its caller (cli.rs:371-377).  The DHT is the environment: *)
(* it delivers bootstrap progress, put confirmations and put errors in any *)
(* order, and the 120 s timer elapses at any time.                         *)
(***************************************************************************)
MaxPuts == 3
MaxSwarmEvents == 2

DHT_RECORD == "DHT-RECORD"
DHT_PROPAGATING == "DHT-PROPAGATING"

\* snf.rs:128-138, 76-103  the loop's variables on entry; store_ok says
\* whether the local record store accepts the record when put_record is called
NewPublish(store_ok) ==
  [f |-> "publish", store_ok |-> store_ok,
   bootstrap_complete |-> FALSE, put_started |-> FALSE, put_error_shown |-> FALSE,
   issued |-> 0, pending |-> 0, errors |-> 0, others |-> 0,
   elapsed |-> FALSE, first_put |-> "none", confirmed |-> FALSE,
   swarm |-> TRUE, result |-> "none", report |-> "none"]

\* kad::Behaviour::put_record as the loop calls it: a query is started when
\* the local store takes the record
put_record(st) ==
  IF st.store_ok THEN [st EXCEPT !.issued = @ + 1, !.pending = @ + 1] ELSE st

\* a return of upload_and_announce: the swarm is a local of the call and is
\* dropped with it
Returned(st, result) == [st EXCEPT !.result = result, !.swarm = FALSE]

InitPublish ==
  /\ mode = "publish"
  /\ PureRest
  /\ pin = [f |-> "publish"]
  /\ ppc = "loop"
  /\ pout \in {NewPublish(ok) : ok \in BOOLEAN}

\* snf.rs:146-163  Bootstrap(Ok): the first such event issues the put; an
\* error of put_record leaves the function through `?`
PublishBootstrapOk ==
  /\ mode = "publish"
  /\ ppc = "loop"
  /\ IF pout.bootstrap_complete
       THEN UNCHANGED <<ppc, pout>>
     ELSE IF pout.put_started
       THEN pout' = [pout EXCEPT !.bootstrap_complete = TRUE] /\ UNCHANGED ppc
     ELSE IF ~pout.store_ok
       THEN /\ pout' = Returned([pout EXCEPT !.bootstrap_complete = TRUE], "Err")
            /\ ppc' = "returned"
     ELSE /\ pout' = [put_record(pout) EXCEPT !.bootstrap_complete = TRUE,
                                               !.put_started = TRUE,
                                               !.first_put = "bootstrap"]
          /\ UNCHANGED ppc
  /\ pureUnchanged

\* snf.rs:164-169  PutRecord(Ok): return Ok("DHT-RECORD")
PublishPutOk ==
  /\ mode = "publish"
  /\ ppc = "loop"
  /\ pout.pending > 0
  /\ pout' = Returned([pout EXCEPT !.pending = @ - 1, !.confirmed = TRUE], DHT_RECORD)
  /\ ppc' = "returned"
  /\ pureUnchanged

\* the loop that prints a put error and waits on, without putting again
PublishPutErr_no_retry ==
  /\ mode = "publish"
  /\ ppc = "loop"
  /\ pout.pending > 0
  /\ pout.issued < MaxPuts
  /\ pout' = [pout EXCEPT !.pending = @ - 1, !.errors = @ + 1, !.put_error_shown = TRUE]
  /\ UNCHANGED ppc
  /\ pureUnchanged

\* snf.rs:170-178  PutRecord(Err): the error is printed once and the record
\* is put again, the result of put_record dropped (.ok())
PublishPutErr ==
  /\ mode = "publish"
  /\ ppc = "loop"
  /\ pout.pending > 0
  /\ pout.issued < MaxPuts
  /\ pout' = put_record([pout EXCEPT !.pending = @ - 1, !.errors = @ + 1,
                                     !.put_error_shown = TRUE])
  /\ UNCHANGED ppc
  /\ pureUnchanged

\* snf.rs:179-185  any other swarm event leaves the loop's variables alone
PublishOtherEvent ==
  /\ mode = "publish"
  /\ ppc = "loop"
  /\ pout.others < MaxSwarmEvents
  /\ pout' = [pout EXCEPT !.others = @ + 1]
  /\ UNCHANGED ppc
  /\ pureUnchanged

\* snf.rs:140-141  the 120 s sleep completes
PublishTimerElapses ==
  /\ mode = "publish"
  /\ ppc = "loop"
  /\ ~pout.elapsed
  /\ pout' = [pout EXCEPT !.elapsed = TRUE]
  /\ UNCHANGED ppc
  /\ pureUnchanged

\* snf.rs:188-196  the timeout branch: without a put so far one is forced
\* (its result dropped) and 10 s are waited; Ok("DHT-PROPAGATING")
PublishTimeout ==
  /\ mode = "publish"
  /\ ppc = "loop"
  /\ pout.elapsed
  /\ pout' = Returned(IF pout.put_started THEN pout
                      ELSE [put_record(pout) EXCEPT !.first_put = "timeout"],
                      DHT_PROPAGATING)
  /\ ppc' = "returned"
  /\ pureUnchanged

\* cli.rs:371-377  Ok(cid) prints "Message pinned & announced to DHT",
\* Err(e) prints "IPFS backup failed"
PublishReport ==
  /\ mode = "publish"
  /\ ppc = "returned"
  /\ pout' = [pout EXCEPT !.report = IF pout.result = "Err" THEN "backup_failed"
                                     ELSE "staged"]
  /\ ppc' = "done"
  /\ pureUnchanged

NextPublish ==
  \/ PublishBootstrapOk
  \/ PublishPutOk
  \/ PublishPutErr
  \/ PublishOtherEvent
  \/ PublishTimerElapses
  \/ PublishTimeout
  \/ PublishReport

SpecPublish == InitPublish /\ [][NextPublish]_vars

\* the timer of tokio::time::sleep elapses, and select! does not pass over a
\* branch that stays ready
SpecPublishFair ==
  SpecPublish /\ WF_vars(PublishTimerElapses) /\ WF_vars(PublishTimeout) /\ WF_vars(PublishReport)

(***************************************************************************)
(* SpecLookup: the event loop of fetch_offline_messages (snf.rs:202-305).  *)
(* The DHT is the environment: bootstrap progress, found records, the end  *)
(* of the query and its errors arrive in any order; the 90 s timer elapses *)
(* at any time.                                                            *)
(***************************************************************************)
MaxFound == 3

\* snf.rs:31-35  get_onion_hash, one hash per address
get_onion_hash(onion) == <<"sha256", onion>>

\* the values a record under a key may hold: the JSON of a staged package
\* (whoever stored it) or other bytes
RecordValues ==
  {[json |-> "package", pkg |-> [recipient_hash |-> get_onion_hash(a), tag |-> t]] :
      a \in {Me, "pa.onion"}, t \in {"one", "two"}}
  \cup {[json |-> "other", pkg |-> [recipient_hash |-> get_onion_hash(Me), tag |-> "none"]]}

\* serde_json::from_slice::<IpfsPackage>
from_slice(value) == IF value.json = "package" THEN Ok(value.pkg) ELSE Err("json")

\* a loop that puts the newest package first
push_package_front(packages, value) ==
  IF from_slice(value).k = "ok" THEN <<from_slice(value).v>> \o packages ELSE packages

\* snf.rs:275-277  if let Ok(pkg) = from_slice(..) { packages.push(pkg) }
push_package(packages, value) ==
  IF from_slice(value).k = "ok" THEN Append(packages, from_slice(value).v) ELSE packages

\* snf.rs:246-253  the loop's variables on entry
NewLookup(our_onion) ==
  [f |-> "lookup", our_onion |-> our_onion, get_started |-> FALSE,
   key |-> <<"none">>, bootstrapped |-> FALSE, query |-> "none",
   received |-> <<>>, packages |-> <<>>, elapsed |-> FALSE,
   swarm |-> TRUE, result |-> <<>>]

InitLookup ==
  /\ mode = "lookup"
  /\ PureRest
  /\ pin = [f |-> "lookup"]
  /\ ppc = "loop"
  /\ pout \in {NewLookup(a) : a \in {Me, "pa.onion"}}

\* snf.rs:258-271  Bootstrap(Ok): the first one starts the query
LookupBootstrapOk ==
  /\ mode = "lookup"
  /\ ppc = "loop"
  /\ pout' = IF pout.get_started THEN [pout EXCEPT !.bootstrapped = TRUE]
             ELSE [pout EXCEPT !.bootstrapped = TRUE, !.get_started = TRUE,
                               !.key = get_onion_hash(pout.our_onion),
                               !.query = "running"]
  /\ UNCHANGED ppc
  /\ pureUnchanged

\* snf.rs:272-279  GetRecord(Ok(FoundRecord)): the value is deserialised and
\* pushed, or skipped
LookupFoundRecord(value) ==
  /\ mode = "lookup"
  /\ ppc = "loop"
  /\ pout.query = "running"
  /\ Len(pout.received) < MaxFound
  /\ pout' = [pout EXCEPT !.received = Append(@, value),
                          !.packages = push_package(@, value)]
  /\ UNCHANGED ppc
  /\ pureUnchanged

\* snf.rs:283-287  GetRecord(Ok(FinishedWithNoAdditionalRecord)): break
LookupFinished ==
  /\ mode = "lookup"
  /\ ppc = "loop"
  /\ pout.query = "running"
  /\ pout' = [pout EXCEPT !.query = "finished", !.result = pout.packages, !.swarm = FALSE]
  /\ ppc' = "done"
  /\ pureUnchanged

\* snf.rs:288  GetRecord(Err(..)) ends the query and is no arm of the match:
\* the loop goes on
LookupGetError ==
  /\ mode = "lookup"
  /\ ppc = "loop"
  /\ pout.query = "running"
  /\ pout' = [pout EXCEPT !.query = "failed"]
  /\ UNCHANGED ppc
  /\ pureUnchanged

\* snf.rs:252-253  the 90 s sleep completes
LookupTimerElapses ==
  /\ mode = "lookup"
  /\ ppc = "loop"
  /\ ~pout.elapsed
  /\ pout' = [pout EXCEPT !.elapsed = TRUE]
  /\ UNCHANGED ppc
  /\ pureUnchanged

\* snf.rs:291-299  the timeout branch: a query not started yet is started and
\* 5 s are slept without polling the swarm; break
LookupTimeout ==
  /\ mode = "lookup"
  /\ ppc = "loop"
  /\ pout.elapsed
  /\ pout' = [(IF pout.get_started THEN pout
               ELSE [pout EXCEPT !.key = get_onion_hash(pout.our_onion)])
              EXCEPT !.result = pout.packages, !.swarm = FALSE]
  /\ ppc' = "done"
  /\ pureUnchanged

NextLookup ==
  \/ LookupBootstrapOk
  \/ \E value \in RecordValues : LookupFoundRecord(value)
  \/ LookupFinished
  \/ LookupGetError
  \/ LookupTimerElapses
  \/ LookupTimeout

SpecLookup == InitLookup /\ [][NextLookup]_vars

\* the timer elapses, and select! does not pass over a branch that stays ready
SpecLookupFair == SpecLookup /\ WF_vars(LookupTimerElapses) /\ WF_vars(LookupTimeout)

(***************************************************************************)
(* SpecStart: TorService::start (tor_service.rs:264-358) and start_server  *)
(* (tor_service.rs:422-454).  The environment decides whether the          *)
(* directories can be made, the daemon spawned, the port bound, and when   *)
(* the daemon writes the hostname file; peers dial the loopback port at    *)
(* any time.                                                               *)
(***************************************************************************)
MaxDials == 2
\* tor_service.rs:333  for i in 0..30, one second each
HostnameWaitSeconds == 30

\* the hostname file as the daemon writes it
HostnameText == <<"me.onion", "nl">>

\* TorService::new: no process, no address, not running
NewStart ==
  [f |-> "start", daemon |-> FALSE, monitor |-> FALSE, i |-> 0,
   file_exists |-> FALSE, onion_address |-> NoAddress, warning |-> FALSE,
   listening |-> FALSE, is_running |-> FALSE,
   dials |-> 0, accepted |-> 0, refused |-> 0,
   result |-> "none", cause |-> "none"]

InitStart ==
  /\ mode = "start"
  /\ PureRest
  /\ pin = [f |-> "start"]
  /\ ppc = "prepare"
  /\ pout = NewStart

\* tor_service.rs:265-286  kill_existing_tor_processes, create_dir_all and
\* set_permissions; an io::Error leaves through `?` as TorError::Io
StartPrepare(dirs_ok) ==
  /\ mode = "start"
  /\ ppc = "prepare"
  /\ IF dirs_ok
       THEN ppc' = "spawn" /\ UNCHANGED pout
       ELSE ppc' = "done" /\ pout' = [pout EXCEPT !.result = "Io", !.cause = "dirs"]
  /\ pureUnchanged

\* tor_service.rs:288-326  Command::spawn, map_err to StartFailed; the child
\* is kept and the monitor thread started
StartSpawn(spawn_ok) ==
  /\ mode = "start"
  /\ ppc = "spawn"
  /\ IF spawn_ok
       THEN ppc' = "waiting" /\ pout' = [pout EXCEPT !.daemon = TRUE, !.monitor = TRUE]
       ELSE ppc' = "done" /\ pout' = [pout EXCEPT !.result = "StartFailed", !.cause = "spawn"]
  /\ pureUnchanged

\* the daemon writes hidden_service/hostname
HostnameAppears ==
  /\ mode = "start"
  /\ pout.daemon
  /\ ~pout.file_exists
  /\ pout' = [pout EXCEPT !.file_exists = TRUE]
  /\ UNCHANGED ppc
  /\ pureUnchanged

\* tor_service.rs:333-346  one turn of the wait: the file is read and the
\* trimmed text stored, or a second is slept
StartWaitStep(read_ok) ==
  /\ mode = "start"
  /\ ppc = "waiting"
  /\ IF pout.i = HostnameWaitSeconds
       THEN ppc' = "bind" /\ UNCHANGED pout
     ELSE IF pout.file_exists /\ read_ok
       THEN ppc' = "bind" /\ pout' = [pout EXCEPT !.onion_address = trim(HostnameText)]
     ELSE UNCHANGED ppc /\ pout' = [pout EXCEPT !.i = @ + 1]
  /\ pureUnchanged

\* tor_service.rs:348-357, 422-454  the warning when there is no address,
\* then start_server: TcpListener::bind (`?`, an io::Error converts to
\* TorError::Io), is_running, the accept thread; Ok(true)
StartServer(bind_ok) ==
  /\ mode = "start"
  /\ ppc = "bind"
  /\ pout' = IF bind_ok
               THEN [pout EXCEPT !.warning = (pout.onion_address = NoAddress),
                                 !.listening = TRUE, !.is_running = TRUE,
                                 !.result = "Ok"]
               ELSE [pout EXCEPT !.warning = (pout.onion_address = NoAddress),
                                 !.result = "Io", !.cause = "bind"]
  /\ ppc' = "done"
  /\ pureUnchanged

\* a connection to 127.0.0.1:port, from the daemon or any local process: it
\* is accepted when the listener is bound and refused otherwise
InboundDial ==
  /\ mode = "start"
  /\ pout.daemon
  /\ pout.dials < MaxDials
  /\ pout' = IF pout.listening
               THEN [pout EXCEPT !.dials = @ + 1, !.accepted = @ + 1]
               ELSE [pout EXCEPT !.dials = @ + 1, !.refused = @ + 1]
  /\ UNCHANGED ppc
  /\ pureUnchanged

NextStart ==
  \/ \E dirs_ok \in BOOLEAN : StartPrepare(dirs_ok)
  \/ \E spawn_ok \in BOOLEAN : StartSpawn(spawn_ok)
  \/ HostnameAppears
  \/ \E read_ok \in BOOLEAN : StartWaitStep(read_ok)
  \/ \E bind_ok \in BOOLEAN : StartServer(bind_ok)
  \/ InboundDial

SpecStart == InitStart /\ [][NextStart]_vars

(***************************************************************************)
(* SpecLife: the life of the transport in the desktop process: start_tor   *)
(* and stop_tor (api.rs:110-159) on TorService::start, start_server and    *)
(* stop (tor_service.rs:264-358, 422-454, 502-522, 558-562), the listener  *)
(* threads and the connections that arrive at the loopback port.  The      *)
(* TOR_SERVICE guard is held for the whole of start_tor and stop_tor, so    *)
(* the two never overlap; every start_tor makes a new TorService.          *)
(***************************************************************************)
MaxServices == 2
Services == 1..MaxServices

NewLife ==
  [f |-> "life", svc |-> 0, made |-> 0, last |-> 0,
   is_running |-> [s \in Services |-> FALSE],
   tor_process |-> [s \in Services |-> FALSE],
   daemon |-> {}, lock_file |-> FALSE,
   listener |-> [s \in Services |-> "none"],
   got_after_stop |-> [s \in Services |-> FALSE],
   stopped |-> [s \in Services |-> 0],
   conns |-> 0, delivered |-> 0, late |-> 0,
   result |-> "none", cause |-> "none", bind_refused_by |-> "none"]

\* a listener of this process still owns the socket bound to the port
PortHeld(st) == \E s \in Services : st.listener[s] \in {"accept", "got"}

\* tor_service.rs:229-262  kill_existing_tor_processes: every Tor process on
\* the data directory gets SIGTERM, the lock file is removed
kill_existing_tor_processes(st) == [st EXCEPT !.daemon = {}, !.lock_file = FALSE]

\* a stop that leaves the running flag as it is
service_stop_keeps_flag(st, s) ==
  [kill_existing_tor_processes(
     [st EXCEPT !.tor_process[s] = FALSE,
                !.daemon = IF st.tor_process[s] THEN @ \ {s} ELSE @])
   EXCEPT !.lock_file = FALSE, !.stopped[s] = @ + 1]

\* tor_service.rs:502-522  stop: is_running.store(false), the child taken
\* out of tor_process is killed and waited for, kill_existing_tor_processes,
\* the lock file removed
service_stop(st, s) ==
  [kill_existing_tor_processes(
     [st EXCEPT !.is_running[s] = FALSE,
                !.tor_process[s] = FALSE,
                !.daemon = IF st.tor_process[s] THEN @ \ {s} ELSE @])
   EXCEPT !.lock_file = FALSE, !.stopped[s] = @ + 1]

InitLife ==
  /\ mode = "life"
  /\ PureRest
  /\ pin = [f |-> "life"]
  /\ ppc = "idle"
  /\ pout = NewLife

\* api.rs:110-118, tor_service.rs:264-326  start_tor finds no service, makes
\* one and calls start: kill_existing_tor_processes, spawn (the daemon takes
\* the lock file of its data directory), the child is stored
LifeStartSpawn(spawn_ok) ==
  /\ mode = "life"
  /\ ppc = "idle"
  /\ pout.svc = 0
  /\ pout.made < MaxServices
  /\ LET s == pout.made + 1
         st == [kill_existing_tor_processes(pout) EXCEPT !.made = s, !.last = s,
                   !.result = "none", !.cause = "none", !.bind_refused_by = "none"]
     IN  IF spawn_ok
           THEN /\ pout' = [st EXCEPT !.tor_process[s] = TRUE, !.daemon = {s},
                                      !.lock_file = TRUE]
                /\ ppc' = "spawned"
           ELSE /\ pout' = [st EXCEPT !.result = "StartFailed", !.cause = "spawn"]
                /\ ppc' = "start_failed"
  /\ pureUnchanged

\* tor_service.rs:354, 422-454  after the hostname wait start_server binds
\* the port: the bind fails while a listener of this process or another
\* process owns it (TorError::Io); else is_running is set, the listener
\* thread started, start returns Ok and start_tor stores the service
LifeStartBind(port_free_outside) ==
  /\ mode = "life"
  /\ ppc = "spawned"
  /\ LET s == pout.last IN
       IF ~PortHeld(pout) /\ port_free_outside
         THEN /\ pout' = [pout EXCEPT !.is_running[s] = TRUE, !.listener[s] = "accept",
                                      !.result = "Ok", !.svc = s]
              /\ ppc' = "idle"
         ELSE /\ pout' = [pout EXCEPT !.result = "Io", !.cause = "bind",
                             !.bind_refused_by = IF PortHeld(pout) THEN "own_listener"
                                                 ELSE "other_process"]
              /\ ppc' = "start_failed"
  /\ pureUnchanged

\* api.rs:118  start returned Err: `?` leaves start_tor, the service is
\* dropped and Drop calls stop (tor_service.rs:558-562)
LifeStartFailedDrop ==
  /\ mode = "life"
  /\ ppc = "start_failed"
  /\ pout' = service_stop(pout, pout.last)
  /\ ppc' = "idle"
  /\ pureUnchanged

\* api.rs:154-157  stop_tor takes the service out and calls stop
LifeStop ==
  /\ mode = "life"
  /\ ppc = "idle"
  /\ pout.svc # 0
  /\ pout' = [service_stop(pout, pout.svc) EXCEPT !.svc = 0, !.last = pout.svc]
  /\ ppc' = "stopped_once"
  /\ pureUnchanged

\* api.rs:158  the service taken out goes out of scope: Drop calls stop again
LifeDrop ==
  /\ mode = "life"
  /\ ppc = "stopped_once"
  /\ pout' = service_stop(pout, pout.last)
  /\ ppc' = "idle"
  /\ pureUnchanged

\* a connection arrives at the port and the blocked accept of the listener
\* thread returns it (tor_service.rs:434)
LifeInboundConn(s) ==
  /\ mode = "life"
  /\ pout.listener[s] = "accept"
  /\ pout.conns < MaxDials
  /\ pout' = [pout EXCEPT !.listener[s] = "got", !.conns = @ + 1,
                          !.got_after_stop[s] = (pout.stopped[s] > 0)]
  /\ UNCHANGED ppc
  /\ pureUnchanged

\* tor_service.rs:435-449  the listener thread reads the flag: break (the
\* listener and the connection are dropped), or handle_client is spawned
\* with the callback
LifeListenerCheck(s) ==
  /\ mode = "life"
  /\ pout.listener[s] = "got"
  /\ pout' = IF ~pout.is_running[s]
               THEN [pout EXCEPT !.listener[s] = "exited"]
               ELSE [pout EXCEPT !.listener[s] = "accept",
                                 !.delivered = @ + 1,
                                 !.late = IF pout.got_after_stop[s] THEN @ + 1 ELSE @]
  /\ UNCHANGED ppc
  /\ pureUnchanged

NextLife ==
  \/ \E spawn_ok \in BOOLEAN : LifeStartSpawn(spawn_ok)
  \/ \E port_free_outside \in BOOLEAN : LifeStartBind(port_free_outside)
  \/ LifeStartFailedDrop
  \/ LifeStop
  \/ LifeDrop
  \/ \E s \in Services : LifeInboundConn(s)
  \/ \E s \in Services : LifeListenerCheck(s)

SpecLife == InitLife /\ [][NextLife]_vars

(***************************************************************************)
(* SpecWait: the two waits for the hidden-service address at startup of    *)
(* the shell: the poll inside TorService::start (tor_service.rs:333-352)   *)
(* and the loop of run_cli (cli.rs:61-73).  The daemon writes the hostname *)
(* file at any time, or never.                                             *)
(***************************************************************************)
\* the count of attempts is followed up to this value
MaxAttempts == 63
\* cli.rs:69  if attempts > 60
CliWaitLimit == 60

NewWait ==
  [f |-> "wait", i |-> 0, file_exists |-> FALSE, onion_address |-> NoAddress,
   attempts |-> 0, timeout_printed |-> FALSE, address |-> NoAddress]

InitWait ==
  /\ mode = "wait"
  /\ PureRest
  /\ pin = [f |-> "wait"]
  /\ ppc = "poll"
  /\ pout = NewWait

\* the daemon writes hidden_service/hostname
WaitHostnameAppears ==
  /\ mode = "wait"
  /\ ppc \in {"poll", "cli_check", "cli_sleep"}
  /\ ~pout.file_exists
  /\ pout' = [pout EXCEPT !.file_exists = TRUE]
  /\ UNCHANGED ppc
  /\ pureUnchanged

\* tor_service.rs:333-352  for i in 0..30: the file is read and the address
\* stored, or a second is slept; after the loop the server is started
WaitPoll(read_ok) ==
  /\ mode = "wait"
  /\ ppc = "poll"
  /\ IF pout.i = HostnameWaitSeconds
       THEN ppc' = "cli_check" /\ UNCHANGED pout
     ELSE IF pout.file_exists /\ read_ok
       THEN ppc' = "cli_check" /\ pout' = [pout EXCEPT !.onion_address = trim(HostnameText)]
     ELSE UNCHANGED ppc /\ pout' = [pout EXCEPT !.i = @ + 1]
  /\ pureUnchanged

\* tor_service.rs:525-539  get_onion_address: the stored address, else the
\* text of the hostname file, else None
get_onion_address(st, read_ok) ==
  IF st.onion_address # NoAddress THEN st.onion_address
  ELSE IF st.file_exists /\ read_ok THEN trim(HostnameText)
  ELSE NoAddress

\* cli.rs:63-66  if let Some(addr) = tor_service.get_onion_address() { break addr; }
WaitCliCheck(read_ok) ==
  /\ mode = "wait"
  /\ ppc = "cli_check"
  /\ IF get_onion_address(pout, read_ok) # NoAddress
       THEN /\ pout' = [pout EXCEPT !.address = get_onion_address(pout, read_ok)]
            /\ ppc' = "proceed"
       ELSE /\ ppc' = "cli_sleep"
            /\ UNCHANGED pout
  /\ pureUnchanged

\* cli.rs:67-72  sleep one second, attempts += 1, the timeout line is printed
\* when attempts > 60; the loop goes round
WaitCliSleep ==
  /\ mode = "wait"
  /\ ppc = "cli_sleep"
  /\ LET n == IF pout.attempts < MaxAttempts THEN pout.attempts + 1 ELSE pout.attempts IN
       pout' = [pout EXCEPT !.attempts = n,
                            !.timeout_printed = (n > CliWaitLimit)]
  /\ ppc' = "cli_check"
  /\ pureUnchanged

NextWait ==
  \/ WaitHostnameAppears
  \/ \E read_ok \in BOOLEAN : WaitPoll(read_ok)
  \/ \E read_ok \in BOOLEAN : WaitCliCheck(read_ok)
  \/ WaitCliSleep

SpecWait == InitWait /\ [][NextWait]_vars

(***************************************************************************)
(* SpecLocks: which locks each thread takes, in which order, and what it   *)
(* does while it holds them.  A thread is the list of its lock operations, *)
(* network calls and thread spawns, in the order of its source.  The locks *)
(* of a process are "crypto", "store" and "transport" (CRYPTO, STORAGE and *)
(* TOR_SERVICE in the desktop; crypto and storage in the shell).           *)
(***************************************************************************)
Acq(l, unwrap) == [op |-> "acq", l |-> l, unwrap |-> unwrap]
Rel(l) == [op |-> "rel", l |-> l, unwrap |-> FALSE]
Io(what) == [op |-> "io", l |-> what, unwrap |-> FALSE]
SpawnThread(what) == [op |-> "spawn", l |-> what, unwrap |-> FALSE]

\* api.rs:668-742  send_message: TOR_SERVICE for the whole call, CRYPTO for
\* encrypt and sign, STORAGE for save_message, then service.send_message
desktop_send_message ==
  <<Acq("transport", TRUE), Acq("crypto", TRUE), Rel("crypto"),
    Acq("store", TRUE), Rel("store"), Io("send_message"), Rel("transport")>>

\* api.rs:77-143  start_tor: STORAGE, CRYPTO, then TOR_SERVICE for start and,
\* under it, CRYPTO for the identity key
desktop_start_tor ==
  <<Acq("store", TRUE), Rel("store"), Acq("crypto", TRUE), Rel("crypto"),
    Acq("transport", TRUE), Acq("crypto", FALSE), Rel("crypto"), Rel("transport")>>

\* api.rs:296-341  handle_handshake_message: STORAGE for the contact, then
\* the response thread is spawned
desktop_handle_handshake ==
  <<Acq("store", FALSE), Rel("store"), SpawnThread("response")>>

\* api.rs:342-353  the response thread: TOR_SERVICE around send_message
desktop_response_thread ==
  <<Acq("transport", TRUE), Io("send_message"), Rel("transport")>>

\* cli.rs:117-157  the offline fetch thread: fetch_offline_messages, then for
\* a package crypto (crypto_l), crypto again for verify_message, storage for
\* save_message
cli_fetch_thread ==
  <<Io("fetch_offline_messages"), Acq("crypto", TRUE), Acq("crypto", FALSE),
    Rel("crypto"), Acq("store", FALSE), Rel("store"), Rel("crypto")>>

\* cli.rs:352-378  the sending thread: send_message, and on Err crypto for
\* the whole of upload_and_announce
cli_send_thread ==
  <<Io("send_message"), Acq("crypto", TRUE), Io("upload_and_announce"), Rel("crypto")>>

\* cli.rs:326-351  /send on the main thread: crypto for encrypt, crypto for
\* sign, then the sending thread is spawned
cli_send_command ==
  <<Acq("crypto", TRUE), Rel("crypto"), Acq("crypto", FALSE), Rel("crypto"),
    SpawnThread("send")>>

LockPrograms(kind) ==
  IF kind = "desktop"
    THEN <<desktop_send_message, desktop_start_tor, desktop_handle_handshake,
           desktop_response_thread>>
    ELSE <<cli_fetch_thread, cli_send_thread, cli_send_command>>

LockThreads(kind) == 1..Len(LockPrograms(kind))

LockRank(l) == IF l = "crypto" THEN 1 ELSE IF l = "store" THEN 2 ELSE 3

SeqRange(s) == {s[i] : i \in 1..Len(s)}

\* the operation a thread is at, or none when its list is finished
OpAt(t) ==
  IF pout.pc[t] <= Len(LockPrograms(pin.kind)[t])
    THEN LockPrograms(pin.kind)[t][pout.pc[t]]
    ELSE [op |-> "end", l |-> "none", unwrap |-> FALSE]

LockOwned(l) == \E u \in LockThreads(pin.kind) : l \in SeqRange(pout.held[u])

Without(s, l) == SelectSeq(s, LAMBDA x : x # l)

\* the operation after the drop of the guard of l that follows position p
AfterRelease(prog, p, l) ==
  1 + (CHOOSE q \in p..Len(prog) :
         /\ prog[q] = Rel(l)
         /\ \A r \in p..(q - 1) : prog[r] # Rel(l))

\* a thread that panics unwinds: its guards are dropped and their mutexes
\* poisoned
Unwound(st, t) ==
  [st EXCEPT !.status[t] = "panicked",
             !.poisoned = @ \cup SeqRange(st.held[t]),
             !.held[t] = <<>>]

InitLocks ==
  /\ mode = "locks"
  /\ PureRest
  /\ pin \in {[f |-> "locks", kind |-> k] : k \in {"desktop", "cli"}}
  /\ ppc = "run"
  /\ pout = [f |-> "locks",
             pc |-> [t \in LockThreads(pin.kind) |-> 1],
             held |-> [t \in LockThreads(pin.kind) |-> <<>>],
             status |-> [t \in LockThreads(pin.kind) |-> "run"],
             poisoned |-> {},
             order |-> {}]

\* Mutex::lock on a mutex no thread owns: the guard is taken; on a poisoned
\* mutex lock() is Err, which unwrap() turns into a panic and `if let Ok`
\* into skipping the block
LockAcquire(t) ==
  /\ mode = "locks"
  /\ t \in LockThreads(pin.kind)
  /\ pout.status[t] = "run"
  /\ OpAt(t).op = "acq"
  /\ ~LockOwned(OpAt(t).l)
  /\ LET l == OpAt(t).l
         st == [pout EXCEPT !.order = @ \cup {<<h, l>> : h \in SeqRange(pout.held[t])}]
     IN  pout' =
           IF l \notin pout.poisoned
             THEN [st EXCEPT !.held[t] = Append(@, l), !.pc[t] = @ + 1]
           ELSE IF OpAt(t).unwrap THEN Unwound(st, t)
           ELSE [st EXCEPT !.pc[t] = AfterRelease(LockPrograms(pin.kind)[t], pout.pc[t], l)]
  /\ UNCHANGED ppc
  /\ pureUnchanged

\* Mutex::lock on a mutex the thread itself owns: std documents that the call
\* deadlocks or panics
LockHeldBlocks(t) ==
  /\ mode = "locks"
  /\ t \in LockThreads(pin.kind)
  /\ pout.status[t] = "run"
  /\ OpAt(t).op = "acq"
  /\ OpAt(t).l \in SeqRange(pout.held[t])
  /\ pout' = [pout EXCEPT !.status[t] = "deadlocked",
                          !.order = @ \cup {<<h, OpAt(t).l>> : h \in SeqRange(pout.held[t])}]
  /\ UNCHANGED ppc
  /\ pureUnchanged

LockHeldPanics(t) ==
  /\ mode = "locks"
  /\ t \in LockThreads(pin.kind)
  /\ pout.status[t] = "run"
  /\ OpAt(t).op = "acq"
  /\ OpAt(t).l \in SeqRange(pout.held[t])
  /\ pout' = Unwound([pout EXCEPT
                        !.order = @ \cup {<<h, OpAt(t).l>> : h \in SeqRange(pout.held[t])}], t)
  /\ UNCHANGED ppc
  /\ pureUnchanged

\* the guard goes out of scope or is dropped
LockRelease(t) ==
  /\ mode = "locks"
  /\ t \in LockThreads(pin.kind)
  /\ pout.status[t] = "run"
  /\ OpAt(t).op = "rel"
  /\ pout' = [pout EXCEPT !.held[t] = Without(@, OpAt(t).l), !.pc[t] = @ + 1]
  /\ UNCHANGED ppc
  /\ pureUnchanged

\* a network call returns, a thread has been spawned
LockIoOrSpawn(t) ==
  /\ mode = "locks"
  /\ t \in LockThreads(pin.kind)
  /\ pout.status[t] = "run"
  /\ OpAt(t).op \in {"io", "spawn"}
  /\ pout' = [pout EXCEPT !.pc[t] = @ + 1]
  /\ UNCHANGED ppc
  /\ pureUnchanged

LockThreadIds == 1..4

NextLocks ==
  \/ \E t \in LockThreadIds : LockAcquire(t)
  \/ \E t \in LockThreadIds : LockHeldBlocks(t)
  \/ \E t \in LockThreadIds : LockHeldPanics(t)
  \/ \E t \in LockThreadIds : LockRelease(t)
  \/ \E t \in LockThreadIds : LockIoOrSpawn(t)

SpecLocks == InitLocks /\ [][NextLocks]_vars

(***************************************************************************)
(* SpecStage: several messages staged for one recipient and the fetch at   *)
(* the recipient's next startup.  upload_and_announce puts the package as  *)
(* the record whose key is the hash of the recipient's address and nothing *)
(* else (snf.rs:124-132); a node of the DHT keeps one record per key, the  *)
(* last one it was sent.  A put reaches some of the nodes that are         *)
(* closest to the key, at least one (Quorum::One).                         *)
(***************************************************************************)
MaxStaged == 3
DhtNodes == {"n1", "n2"}
NoRecord == [recipient_hash |-> <<"none">>, tag |-> "none", sender |-> "none"]
StageSenders == {"pa.onion", "pb.onion"}
StageRecipients == {Me, "pc.onion"}

\* snf.rs:57-61, 124-132  the package and the key of its record
StagedRecord(recipient_onion, sender_onion, tag) ==
  [key |-> get_onion_hash(recipient_onion),
   value |-> [recipient_hash |-> get_onion_hash(recipient_onion), tag |-> tag,
              sender |-> sender_onion]]

\* the record store of a DHT node: the record of a key is replaced
store_put(stored, record) ==
  [stored EXCEPT ![record.key] = <<record.value>>]

StageKeys == {get_onion_hash(a) : a \in StageRecipients}

InitStage ==
  /\ mode = "stage"
  /\ PureRest
  /\ pin = [f |-> "stage"]
  /\ ppc = "offline"
  /\ pout = [f |-> "stage",
             nodes |-> [n \in DhtNodes |-> [k \in StageKeys |-> <<>>]],
             staged |-> <<>>, result |-> <<>>]

\* snf.rs:37-198  a sender stages its next message for a recipient: the put
\* is confirmed once a node has stored the record
StagePut(sender, recipient, reached) ==
  /\ mode = "stage"
  /\ ppc = "offline"
  /\ Len(pout.staged) < MaxStaged
  /\ reached # {}
  /\ LET record == StagedRecord(recipient, sender, Len(pout.staged) + 1) IN
       pout' = [pout EXCEPT
                  !.nodes = [n \in DhtNodes |->
                               IF n \in reached THEN store_put(pout.nodes[n], record)
                               ELSE pout.nodes[n]],
                  !.staged = Append(@, record.value)]
  /\ UNCHANGED ppc
  /\ pureUnchanged

\* snf.rs:247-304, cli.rs:121-125  the recipient starts and fetches: every
\* node answers get_record with what it holds under the key
StageFetch(first) ==
  /\ mode = "stage"
  /\ ppc = "offline"
  /\ pout.staged # <<>>
  /\ LET second == CHOOSE n \in DhtNodes : n # first IN
       pout' = [pout EXCEPT !.result =
                  pout.nodes[first][get_onion_hash(Me)] \o
                  pout.nodes[second][get_onion_hash(Me)]]
  /\ ppc' = "fetched"
  /\ pureUnchanged

NextStage ==
  \/ \E sender \in StageSenders, recipient \in StageRecipients,
        reached \in SUBSET DhtNodes : StagePut(sender, recipient, reached)
  \/ \E first \in DhtNodes : StageFetch(first)

SpecStage == InitStage /\ [][NextStage]_vars

(***************************************************************************)
(* Properties of validate_message (SpecValidate).                          *)
(***************************************************************************)
\* the acceptance condition as documented: identifier, version and timestamp,
\* a sender for every kind but ping and pong, and for a text marked encrypted a
\* well-formed envelope under "data"
DocumentedAccepts(msg, now) ==
  /\ msg.id # ""
  /\ msg.version = "1.0"
  /\ msg.timestamp <= now + FutureTolerance
  /\ (msg.type \notin {"ping", "pong"} => msg.sender_id # None)
  /\ (msg.type = "text" /\ msg.payload.encrypted = "true" => msg.payload.data.k = "env")

\* C10: validate_message accepts a message if and only if its id is non-empty,
\* its version is 1.0, its timestamp is at most now + 300, a sender is present
\* unless it is a ping or pong, and an encrypted text carries a well-formed
\* envelope under data.
C10_validate_iff_documented ==
  vpc = "done" => (vres <=> DocumentedAccepts(vmsg, vnow))

(***************************************************************************)
(* Properties of the inbound side (SpecNode, SpecStore, SpecStoreFair).    *)
(***************************************************************************)
IsMsgFrame(f) == f.k = "raw" /\ from_json_ok(f.text)

ResponsesBy(w) == {r \in responses : r.by = w}

\* C2: every staged package whose outer envelope decrypts to a parseable
\* protocol message is eventually processed to the end: a received message
\* with its identifier is stored and the fetch thread terminates holding no
\* lock.
C2_fetch_processes_and_terminates ==
  (fpc = "relock") ~>
    (/\ fpc = "done"
     /\ cryptoL.owner # FetchT
     /\ from_json_ok(fcur.encrypted_message.plain)
     /\ \E r \in messages :
          /\ r.id = from_json(fcur.encrypted_message.plain).id
          /\ ~r.is_sent)

\* helpers of C3: uniqueness of identifiers, the fate of a colliding delivery,
\* and rows never changing
C3Unique == \A r1, r2 \in messages : r1.id = r2.id => r1 = r2

C3Ignored ==
  \A w \in Workers : "duplicate" \in eff[w] =>
    /\ wpc[w] = "done"
    /\ wout[w] = "text"
    /\ wreply[w] = "OK"
    /\ "stored" \notin eff[w]

C3RowKept == \A r \in messages : r \in messages'

\* C3: the store never holds two rows with one identifier, a stored row is
\* never changed or removed by a later delivery, and a delivery that collides
\* on the identifier ends like any other (the handler returns, OK is written).
C3_one_row_per_id == [](C3Unique /\ C3Ignored) /\ [][C3RowKept]_vars

\* C3 witness: a second delivery with an identifier already stored (sent by
\* another peer, so the rows would differ) was ignored and the first row stands
C3_witness_duplicate_ignored ==
  \E w \in Workers :
    /\ "duplicate" \in eff[w]
    /\ wpc[w] = "done"
    /\ \E r \in messages :
         /\ r.id = from_json(wframe[w].text).id
         /\ r.sender_id # from_json(wframe[w].text).sender_id

\* the rows of the recipient's store that stand for the one /send: the row of
\* its direct frame and the row of its staged copy
C37Copies ==
  {r \in messages :
     \/ r.id = DirectOfSend.id
     \/ r.id = from_json(StagedCopy(DirectOfSend, "s2").encrypted_message.plain).id}

C37BothDelivered ==
  /\ mode = "store"
  /\ \E r \in messages : r.id = DirectOfSend.id /\ ~r.is_sent
  /\ fpc \in {"outer", "relock"}
  /\ fcur = StagedCopy(DirectOfSend, "s2")

C38Handled(w) ==
  /\ mode = "known"
  /\ wpc[w] = "hs_store"
  /\ wpc'[w] = "hs_resp"

\* C38: a handshake from a sender that is already a contact leaves the
\* nickname of the contact as it was; the handshake changes no other contact.
C38_handshake_keeps_nickname ==
  [][\A w \in Workers : C38Handled(w) =>
       LET sender_id == from_json(wframe[w].text).sender_id IN
         /\ contacts[sender_id] # NoContact =>
               /\ contacts'[sender_id] # NoContact
               /\ contacts'[sender_id].nickname = contacts[sender_id].nickname
         /\ \A a \in Addresses \ {sender_id} : contacts'[a] = contacts[a]]_vars

\* C6: no frame is ever kept from the message handler because an earlier frame
\* disabled the receive path: once a handler is registered, every frame that is
\* dispatched is handed to it.
C6_receive_path_never_disabled ==
  \A w \in Workers : wout[w] # "poisoned"

\* every worker is handling a non-response handshake that names its sender
HandshakeStorm ==
  \A w \in Workers :
    /\ wpc[w] # "idle"
    /\ IsMsgFrame(wframe[w])
    /\ from_json(wframe[w].text).type = "handshake"
    /\ from_json(wframe[w].text).payload.is_response # "true"
    /\ from_json(wframe[w].text).sender_id # None

\* a step of a thread of the process: the main thread, a worker, a response
\* thread or the fetch thread
ThreadStep ==
  \/ SetMessageHandler
  \/ \E loaded \in BOOLEAN : StartTorReturns(loaded)
  \/ \E w \in Workers : WorkerStep(w) \/ DesktopWorkerStep(w)
  \/ \E r \in responses, ok \in BOOLEAN : ResponseThreadSends(r, ok)
  \/ DesktopResponseStep
  \/ FetchStep

\* C7: while non-response handshakes are being handled on all workers, the
\* threads of the process are never all blocked: unless every handler has
\* completed, some thread can take a step.
C7_handshake_storm_not_blocked ==
  HandshakeStorm =>
    \/ \A w \in Workers : wpc[w] = "done"
    \/ ENABLED ThreadStep

\* C8: a handled handshake leaves its sender a contact that is marked online;
\* for is_response false or absent exactly one response handshake, signed and
\* with is_response = true, was handed to a thread for the sender, and for
\* is_response true none was.
C8_handshake_dispatch ==
  \A w \in Workers :
    (wpc[w] = "done" /\ wout[w] = "handshake") =>
      LET m == from_json(wframe[w].text) IN
        /\ contacts[m.sender_id] # NoContact
        /\ m.sender_id \in online
        /\ IF m.payload.is_response = "true"
             THEN ResponsesBy(w) = {}
             ELSE /\ Cardinality(ResponsesBy(w)) = 1
                  /\ \A r \in ResponsesBy(w) :
                       r.to = m.sender_id /\ r.is_response /\ r.signed

\* C9: an inbound protocol message that fails validate_message has no effect:
\* no contact written, no online marking, no stored message, no response.
C9_invalid_message_no_effect ==
  \A w \in Workers :
    (IsMsgFrame(wframe[w]) /\ ~validate_message(from_json(wframe[w].text), NowT)) =>
      eff[w] = {} /\ ResponsesBy(w) = {}

\* an inbound text the receiver may store: flagged encrypted, with a
\* well-formed envelope that was made for this identity, is intact and has a
\* 12-byte nonce
StorableText(m) ==
  /\ m.type = "text"
  /\ m.payload.encrypted = "true"
  /\ m.payload.data.k = "env"
  /\ m.payload.data.to = Me
  /\ m.payload.data.nonce12
  /\ m.payload.data.tagOk

ReceivedTextRow(m) ==
  Row(m.id, "text", m.sender_id, m.recipient_id, m.payload.data.plain, m.timestamp, FALSE)

\* C12: a text whose signature does not verify against its sender (whatever
\* the order of the payload keys) is decrypted and stored all the same, and
\* the row stored for it is marked: it differs from the row stored for the
\* same message when its signature verifies.
C12_unverified_text_marked ==
  \A w \in Workers :
    (/\ wpc[w] = "done"
     /\ wverified[w] = "false"
     /\ IsMsgFrame(wframe[w])
     /\ StorableText(from_json(wframe[w].text))
     /\ \A o \in Orderings(PayloadKeys(from_json(wframe[w].text).payload)) :
          ~verify_message(from_json(wframe[w].text), o)
     /\ keyLoaded
     /\ ~storL.poisoned) =>
       /\ eff[w] \cap {"stored", "duplicate"} # {}
       /\ "stored" \in eff[w] =>
            \E r \in messages :
              /\ r.id = from_json(wframe[w].text).id
              /\ r # ReceivedTextRow(from_json(wframe[w].text))

\* no handshake of this sender was delivered: a contact for it can only come
\* from the handling of its texts
NoHandshakeFrom(a) ==
  \A v \in Workers :
    ~(/\ IsMsgFrame(wframe[v])
      /\ from_json(wframe[v].text).type = "handshake"
      /\ from_json(wframe[v].text).sender_id = a)

\* C13: once a valid encrypted text of a sender that was no contact has been
\* handled, the text is stored, the sender is a contact and a response
\* handshake (is_response = true) was handed to a thread for it.
C13_text_bootstraps_contact ==
  \A w \in Workers :
    (/\ wpc[w] = "done"
     /\ wout[w] = "text"
     /\ IsMsgFrame(wframe[w])
     /\ StorableText(from_json(wframe[w].text))
     /\ validate_message(from_json(wframe[w].text), NowT)
     /\ ~storL.poisoned
     /\ NoHandshakeFrom(from_json(wframe[w].text).sender_id)) =>
       /\ eff[w] \cap {"stored", "duplicate"} # {}
       /\ contacts[from_json(wframe[w].text).sender_id] # NoContact
       /\ \E r \in responses :
            r.to = from_json(wframe[w].text).sender_id /\ r.is_response

\* C22: a connection whose data is no HTTP request has its frame passed to
\* the message callback and is answered OK; an HTTP request is never
\* answered OK; no frame is answered OK without having been passed to the
\* message callback.
C22_frame_passed_then_ok ==
  \A w \in Workers :
    /\ (wpc[w] = "done" /\ wframe[w].k = "raw") =>
          wout[w] \notin {"nohandler", "poisoned"} /\ wreply[w] = "OK"
    /\ (wframe[w].k = "raw") => wpc[w] # "panicked"
    /\ (wframe[w].k = "http") => wreply[w] # "OK"
    /\ wreply[w] = "OK" => wout[w] \notin {"none", "nohandler", "poisoned"}

\* C23: the peer that sent a frame which is no HTTP request sees the reply
\* OK when the worker has finished with it, whether the frame was a valid
\* message, did not parse, failed validation, failed verification or failed
\* decryption; so any two such frames, one that decrypts and one that does
\* not, are answered alike.  (Frames that the debug print cannot slice are
\* left out: they are C6's.)
C23_no_error_oracle ==
  \A w \in Workers :
    (wframe[w].k = "raw" /\ wframe[w].sliceOk /\ wpc[w] \in {"done", "panicked"})
       => wreply[w] = "OK"

\* kinds that neither front end has an arm for
IgnoredKinds == {"ack", "ping", "pong", "keyexchange"}

IsWebFrame(f) == f.k \in {"raw", "http"} /\ HandlerInput(f).text.k = "web"

\* C35: a protocol message without sender, or of the kinds ack, ping, pong
\* and key exchange, changes no contact, no message row and no online mark
\* and has nothing sent back; a web message is shown to the user and creates
\* no contact, marks nobody online and sends no handshake.
C35_ignored_input_no_effect ==
  \A w \in Workers :
    /\ (IsMsgFrame(wframe[w]) /\
          (from_json(wframe[w].text).sender_id = None \/
           from_json(wframe[w].text).type \in IgnoredKinds)) =>
         /\ eff[w] = {}
         /\ ResponsesBy(w) = {}
         /\ wpc[w] = "done" => wout[w] \in {"ignored", "no_sender", "nohandler", "poisoned"}
    /\ IsWebFrame(wframe[w]) =>
         /\ eff[w] \cap {"contact", "online", "response"} = {}
         /\ ResponsesBy(w) = {}
         /\ (wpc[w] = "done" /\ wout[w] \notin {"nohandler", "poisoned", "none"}) =>
               wout[w] = "web"

C35_witness_ping_and_web_handled ==
  \E w1, w2 \in Workers :
    /\ wpc[w1] = "done" /\ wout[w1] = "ignored"
    /\ IsMsgFrame(wframe[w1]) /\ from_json(wframe[w1].text).type = "ping"
    /\ wpc[w2] = "done" /\ wout[w2] = "web"
    /\ contacts = [a \in Addresses |-> NoContact]

(***************************************************************************)
(* Properties of the outbound side (SpecSend).                             *)
(***************************************************************************)
\* C1: a finished send was reported as sent exactly when the peer's trimmed
\* reply was OK; after a connection error, an I/O error or any other reply
\* (the empty one included) upload_and_announce was invoked for the message
\* and the message was not reported as sent.
C1_sent_iff_reply_ok ==
  \A j \in Jobs :
    (sjob[j].pc = "done" /\ sjob[j].wire # "none") =>
      IF sjob[j].wire \in Replies /\ trim_ascii(sjob[j].wire) = "OK"
        THEN sjob[j].report = "sent" /\ sjob[j].upload = "none"
        ELSE sjob[j].report # "sent" /\ sjob[j].upload # "none"

\* C4: a package staged after a failed direct send of M is addressed to M's
\* recipient and its outer plaintext parses to a message equal to M in every
\* field.
C4_staged_message_equals_sent ==
  \A j \in Jobs :
    sjob[j].pkg # NoStaged =>
      /\ sjob[j].pkg.recipient_hash = sjob[j].to
      /\ from_json_ok(sjob[j].pkg.encrypted_message.plain)
      /\ from_json(sjob[j].pkg.encrypted_message.plain) = sjob[j].msg

\* C5: a send that ended delivered directly, or staged in the DHT after the
\* direct delivery failed, has left a row for the message in the store with
\* is_sent set.
C5_outgoing_persisted_both_outcomes ==
  \A j \in Jobs :
    (sjob[j].pc = "done" /\ sjob[j].report \in {"sent", "staged"}) =>
      \E r \in messages :
        /\ r.id = sjob[j].msg.id
        /\ r.recipient_id = sjob[j].to
        /\ r.is_sent

\* C25: a send whose encryption failed transmitted nothing, published nothing
\* and saved no row; a send whose signing failed did the same: every message
\* that was written to the peer carries a signature.
C25_failed_send_is_aborted ==
  \A j \in Jobs :
    /\ sjob[j].report = "encrypt_error" =>
         /\ sjob[j].wire = "none"
         /\ sjob[j].upload = "none"
         /\ sjob[j].pkg = NoStaged
         /\ \A r \in messages : r.recipient_id # sjob[j].to
    /\ sjob[j].wire \in Replies \cup {"io_failed"} => sjob[j].msg.signature # NoSig
    /\ (sjob[j].pc = "done" /\ sjob[j].report = "sent") => sjob[j].msg.signature # NoSig

(***************************************************************************)
(* Properties of the add-contact commands (SpecAdd).                       *)
(***************************************************************************)
\* C14: a finished add of an address the codec rejects ended with the
\* invalid-address error, left the contact table as it was and sent no
\* handshake; a finished add of a valid address wrote the contact and
\* dispatched one handshake that is signed and has is_response = false.
C14_add_validates_address ==
  \A j \in Adds :
    ajob[j].pc = "done" =>
      IF ~OnionValid(ajob[j].addr)
        THEN /\ ajob[j].res = "invalid_address"
             /\ contacts[ajob[j].addr] = ajob[j].before[ajob[j].addr]
             /\ ajob[j].st = "none"
        ELSE /\ contacts[ajob[j].addr] # NoContact
             /\ ajob[j].addr # Me =>
                  /\ ajob[j].st \in {"sent", "failed"}
                  /\ ajob[j].hs.type = "handshake"
                  /\ ajob[j].hs.payload.is_response = "false"
                  /\ ajob[j].hs.signature # NoSig

(***************************************************************************)
(* Properties of the wipe (SpecWipe).                                      *)
(***************************************************************************)
\* C15: once a confirmed /delete-all has finished, no message and no
\* contact is stored, the Tor daemon is stopped, the lock file is removed and
\* the identity key is gone; after the next startup the address of the
\* program differs from the address it had when the wipe was confirmed.
C15_wipe_removes_everything ==
  wipe.wiped =>
    /\ wipe.pc = "off" =>
         /\ messages = {}
         /\ contacts = EmptyContacts
         /\ ~wipe.db
         /\ ~wipe.daemon
         /\ ~wipe.lock
         /\ wipe.identity = NoKey
    /\ wipe.pc = "prompt" => wipe.address # wipe.before

(***************************************************************************)
(* Properties of the ECIES envelope (SpecEcies).                           *)
(***************************************************************************)
\* C16: decrypting under B's identity the untouched envelope of
\* encrypt_message(p, address of B) returns p; decrypting it under any other
\* identity, or after its ciphertext, nonce or ephemeral key was modified,
\* returns a Decryption error.
C16_ecies_round_trip ==
  (mode = "ecies" /\ ppc = "done") =>
     IF pout.tamper = "none" /\ pin.reader = pin.b
       THEN pout.res = Ok(pin.p)
       ELSE pout.res = Err("Decryption")

(***************************************************************************)
(* Properties of the signatures (SpecSig, SpecCanon).                      *)
(***************************************************************************)
\* C17: the signature A's key made over m verifies against the address of A
\* with m, and it does not verify against the address of another identity
\* nor with a message different from m.
C17_signature_binds_identity ==
  (mode = "sig" /\ ppc = "done" /\ ~pin.garble /\ pin.addr \in Identities) =>
     (pout.res <=> (pin.addr = pin.a /\ pin.m2 = pin.m))

C17_witness_own_signature_verified ==
  /\ mode = "sig" /\ ppc = "done" /\ ~pin.garble
  /\ pin.addr = pin.a /\ pin.m2 = pin.m /\ pout.res
  /\ pout.sig = sign_with_onion_key(pin.a, pin.m)

\* C18: a message signed by sign_message, serialised with to_json and
\* parsed with from_json in another process verifies there, whatever the
\* order of the payload's keys in either process.
C18_canonical_across_processes ==
  (mode = "canon" /\ ppc = "done") => pout.res

(***************************************************************************)
(* Properties of the key conversion (SpecDh).                              *)
(***************************************************************************)
\* C19: for every identity, the Diffie-Hellman public key of the clamped
\* scalar equals the one obtained from the verifying key by the
\* Edwards-to-Montgomery conversion.
C19_dh_public_equivalence ==
  (mode = "dh" /\ ppc = "done") => pout.x_pk_from_sk = pout.x_pk_from_pk

C19_witness_negated_point ==
  /\ mode = "dh" /\ ppc = "done"
  /\ pout.x_pk_from_sk = pout.x_pk_from_pk
  /\ pout.ed_pk # pout.x_pk_from_pk

(***************************************************************************)
(* Properties of the address codec (SpecOnion).                            *)
(***************************************************************************)
\* the text with one ".onion" suffix removed from its end, in lower case
SuffixTrimmedLower(t) ==
  onion_to_lowercase(IF t.trail = 0 /\ ~t.sufUpper /\ t.nsuf > 0
                       THEN [t EXCEPT !.nsuf = @ - 1] ELSE t)

\* 56 characters that decode to 35 bytes of which the last one is 3
WellFormed(t) ==
  /\ onion_len(t) = 56
  /\ base32_decode_ok(t) /\ base32_decoded_len(t) = 35
  /\ t.body.ver = 3

\* C20: an address is accepted only if, after trimming the .onion
\* suffix and lowercasing, it has 56 characters that decode to 35 bytes
\* ending in 3, the result then being the first 32 bytes; every other input
\* is an error; an encoded verifying key decodes to itself.
C20_decodes_only_well_formed ==
  (mode = "onion" /\ ppc = "done") =>
     /\ pout.res.k = "ok" =>
          WellFormed(SuffixTrimmedLower(pin.text)) /\ pout.res.v = pin.text.body.pk
     /\ ~WellFormed(SuffixTrimmedLower(pin.text)) => pout.res.k = "err"
     /\ (IsCurvePoint(pin.text.body.pk) /\ pin.text = onion_encode(pin.text.body.pk))
          => pout.res = Ok(pin.text.body.pk)

(***************************************************************************)
(* Properties of the identity gate (SpecGate).                             *)
(***************************************************************************)
\* C21: before set_onion_signing_key has succeeded, decrypt_message
\* returns a Decryption error and sign_with_onion_key a Signature error, not
\* a panic; set_onion_signing_key with a key that is not 64 bytes long
\* returns an error and leaves the handler as it was; encrypt_message and
\* verify_with_onion_address give their results without a loaded identity.
C21_identity_gating ==
  mode = "gate" =>
    /\ ~pin.succeeded => pin.raw = None /\ pin.vk = None
    /\ pout.call = "decrypt_message" /\ ~pout.before.succeeded =>
         pout.res = Err("Decryption")
    /\ pout.call = "sign_with_onion_key" /\ ~pout.before.succeeded =>
         pout.res = Err("Signature")
    /\ pout.call = "set_onion_signing_key" =>
         /\ pout.res.k = "err" <=> pout.len # 64
         /\ pout.res.k = "err" => pin = pout.before
    /\ pout.call = "encrypt_message" /\ ~pout.before.succeeded =>
         (pout.res.k = "ok" <=> pout.to \in Identities)
    /\ pout.call = "verify_with_onion_address" /\ ~pout.before.succeeded =>
         pout.res = Ok(pout.signer = pout.address)

C21_witness_refused_before_key ==
  /\ mode = "gate" /\ ~pin.succeeded
  /\ pout.call = "decrypt_message" /\ pout.data.nonce.len = 11
  /\ pout.res = Err("Decryption")

(***************************************************************************)
(* Properties of the outbound dial (SpecDial).                             *)
(***************************************************************************)
\* C24: for an address without an explicit port send_message dials the host
\* on the virtual port 80, never on the local port 8080; for host:port with a
\* port that parses it dials the host on that port.
C24_dials_virtual_port ==
  (mode = "dial" /\ ppc = "done") =>
     /\ pin.input.kind = "bare" =>
          /\ pout.target.host = pin.input.host
          /\ pout.target.port = HIDDEN_SERVICE_VIRTUAL_PORT
          /\ pout.target.port # HIDDEN_SERVICE_PORT
     /\ pin.input.kind = "port" =>
          /\ pout.target.host = pin.input.host
          /\ pout.target.port = pin.input.n

C24_witness_explicit_port_dialled ==
  /\ mode = "dial" /\ ppc = "done"
  /\ pin.input.kind = "port" /\ pin.input.n = HIDDEN_SERVICE_PORT
  /\ pout.target.port = HIDDEN_SERVICE_PORT
  /\ Len(pin.input.host) > 1

(***************************************************************************)
(* Properties of the publish loop (SpecPublish, SpecPublishFair).          *)
(***************************************************************************)
\* C26: a publish that obtained no confirmed put (its puts ended in errors,
\* or the timeout elapsed before bootstrap or confirmation) returns something
\* other than the confirmed result and is not reported as staged.
C26_dht_failure_surfaced ==
  (mode = "publish" /\ ppc = "done" /\ ~pout.confirmed) =>
     /\ pout.result # DHT_RECORD
     /\ pout.report # "staged"

C27FirstPut ==
  (pout.issued = 0 /\ pout'.issued > 0) =>
     \/ ~pout.bootstrap_complete /\ pout'.bootstrap_complete
     \/ pout.elapsed

C27Reissue ==
  (pout'.errors = pout.errors + 1) => (pout'.issued = pout.issued + 1 /\ pout'.pending > 0)

C27ConfirmedReturns ==
  (~pout.confirmed /\ pout'.confirmed) => (ppc' = "returned" /\ pout'.result = DHT_RECORD)

C27Results ==
  /\ ppc = "loop" => pout.result = "none" /\ pout.swarm
  /\ ppc # "loop" =>
       /\ ~pout.swarm
       /\ pout.result = DHT_RECORD <=> pout.confirmed
       /\ pout.result = DHT_PROPAGATING => pout.elapsed
       /\ pout.result \notin {DHT_RECORD, DHT_PROPAGATING} =>
            (pout.result = "Err" /\ ~pout.store_ok /\ pout.issued = 0)

RECURSIVE Deserialised(_)
Deserialised(values) ==
  IF values = <<>> THEN <<>>
  ELSE IF Head(values).json = "package"
    THEN <<Head(values).pkg>> \o Deserialised(Tail(values))
    ELSE Deserialised(Tail(values))

C28Result ==
  /\ pout.received # <<>> => pout.bootstrapped
  /\ pout.key # <<"none">> => pout.key = get_onion_hash(pout.our_onion)
  /\ ppc = "done" => pout.result = Deserialised(pout.received)

\* C28: the records arrive on a query for the hash of the local address that
\* was started after a bootstrap success; the call returns the packages of the
\* deserialisable records among those received before the end of the query or
\* the timeout, in the order of arrival; the call always returns.
C28_fetch_loop ==
  /\ [](mode = "lookup" => C28Result)
  /\ [][(mode = "lookup" /\ ppc = "done") => UNCHANGED pout]_vars
  /\ (mode = "lookup" => <>(ppc = "done"))

C28_witness_skipped_and_ordered ==
  /\ mode = "lookup" /\ ppc = "done"
  /\ Len(pout.received) = 3 /\ Len(pout.result) = 2
  /\ pout.result[1] # pout.result[2]
  /\ pout.received[2].json = "other"

(***************************************************************************)
(* Properties of the transport start (SpecStart).                          *)
(***************************************************************************)
\* C29: while start waits for the hostname file, and after a wait that ended
\* without a hostname, the loopback port is listening, so no connection made
\* once the daemon runs is refused while start goes on; the address stored is
\* the text of the hostname file at its first successful read.
C29_listening_before_hostname_wait ==
  mode = "start" =>
     /\ ppc = "waiting" => pout.listening
     /\ (ppc = "bind" /\ pout.onion_address = NoAddress) => pout.listening
     /\ ppc \in {"waiting", "bind"} => pout.refused = 0
     /\ pout.onion_address # NoAddress => pout.onion_address = <<"me.onion">>

\* C30: a start that failed because the loopback port could not be bound
\* returned StartFailed, and so did a start that failed because the daemon
\* could not be spawned.
C30_start_failure_kinds ==
  (mode = "start" /\ ppc = "done") =>
     /\ pout.cause = "bind" => pout.result = "StartFailed"
     /\ pout.cause = "spawn" => pout.result = "StartFailed"

(***************************************************************************)
(* Properties of the life of the transport (SpecLife).                     *)
(***************************************************************************)
C31Stopped ==
  /\ pout.late = 0
  /\ ppc = "stopped_once" =>
       /\ ~pout.is_running[pout.last]
       /\ ~pout.tor_process[pout.last]
       /\ pout.last \notin pout.daemon
       /\ ~pout.lock_file

C31ListenerExits ==
  \A s \in Services :
    (pout.listener[s] = "got" /\ ~pout.is_running[s] /\ pout'.listener[s] # "got") =>
       (pout'.listener[s] = "exited" /\ pout'.delivered = pout.delivered)

C31StopAgain ==
  (ppc = "stopped_once" /\ ppc' = "idle") =>
     pout' = [pout EXCEPT !.stopped[pout.last] = @ + 1]

\* C31: when stop has returned the running flag is false, the daemon child is
\* dead and no longer recorded and the lock file is gone; a listener thread
\* that finds the flag false leaves its loop without dispatching the
\* connection, so no connection accepted after stop returned reaches the
\* callback; the second stop, from Drop, changes nothing.
C31_stop_shuts_listener ==
  /\ [](mode = "life" => C31Stopped)
  /\ [][mode = "life" => (C31ListenerExits /\ C31StopAgain)]_vars

C31_witness_late_connection_dropped ==
  /\ mode = "life"
  /\ \E s \in Services :
       /\ pout.stopped[s] = 2
       /\ pout.listener[s] = "exited"
       /\ pout.got_after_stop[s]
  /\ pout.delivered > 0

\* C39: when start has returned an error, the daemon child of that call is
\* neither running nor recorded in the service, the running flag is false
\* and the call left no listener thread.
C39_failed_start_leaves_stopped ==
  (mode = "life" /\ ppc = "start_failed") =>
     /\ pout.last \notin pout.daemon
     /\ ~pout.tor_process[pout.last]
     /\ ~pout.is_running[pout.last]
     /\ pout.listener[pout.last] = "none"

\* C40: once stop has returned, the listener of that run holds the port no
\* more, and a later start is never refused the port by a listener of an
\* earlier run.
C40_restart_after_stop ==
  mode = "life" =>
     /\ \A s \in Services :
          (pout.stopped[s] > 0 /\ ppc \in {"idle", "spawned", "start_failed"}) =>
             pout.listener[s] \notin {"accept", "got"}
     /\ ppc = "start_failed" => pout.bind_refused_by # "own_listener"

(***************************************************************************)
(* Properties of the startup waits (SpecWait).                             *)
(***************************************************************************)
\* C32: neither wait for the address goes on beyond its bound: the poll of
\* start has slept at most 30 times, and the loop of the shell is left,
\* with or without an address, once its count of attempts has passed 60.
C32_bounded_address_wait ==
  mode = "wait" =>
     /\ pout.i <= HostnameWaitSeconds
     /\ (ppc \in {"cli_check", "cli_sleep"}) => pout.attempts <= CliWaitLimit + 1

(***************************************************************************)
(* Properties of the lock discipline (SpecLocks).                          *)
(***************************************************************************)
\* C33: a thread that is in a network call (send_message, upload_and_announce,
\* fetch_offline_messages) or spawns a thread holds none of the crypto, store
\* and transport locks.
C33_no_lock_during_io ==
  mode = "locks" =>
    \A t \in LockThreads(pin.kind) :
      (pout.status[t] = "run" /\ OpAt(t).op \in {"io", "spawn"}) => pout.held[t] = <<>>

\* C34: the locks a thread holds were taken in the order crypto, store,
\* transport; no thread asks for a lock it holds; the graph of "asked for
\* while holding" has no cycle.
C34_lock_order ==
  mode = "locks" =>
    /\ \A t \in LockThreads(pin.kind) :
         \A i, j \in 1..Len(pout.held[t]) :
            i < j => LockRank(pout.held[t][i]) < LockRank(pout.held[t][j])
    /\ \A t \in LockThreads(pin.kind) :
         (pout.status[t] = "run" /\ OpAt(t).op = "acq") =>
            OpAt(t).l \notin SeqRange(pout.held[t])
    /\ \A e \in pout.order : LockRank(e[1]) < LockRank(e[2])

(***************************************************************************)
(* Properties of offline staging (SpecStage).                              *)
(***************************************************************************)
\* C36: the fetch at the recipient's startup returns every package that was
\* staged for it before.
C36_fetch_returns_all_staged ==
  (mode = "stage" /\ ppc = "fetched") =>
     \A i \in 1..Len(pout.staged) :
        pout.staged[i].recipient_hash = get_onion_hash(Me) =>
           \E j \in 1..Len(pout.result) : pout.result[j] = pout.staged[i]

====
